---- MODULE Spec2Model ----
(***************************************************************************)
(* A model of the ply compiler's method-chain pipelining (package codegen) *)
(* and of the Go code it generates.                                         *)
(*                                                                          *)
(* A program is a list of call sites; a call site is a method chain on a    *)
(* receiver.  The compiler walks each chain from its outermost call         *)
(* (specializer.Rewrite), fuses what buildPipeline accepts (pipeline.gen),  *)
(* generates single methods for the rest, and records the declarations.     *)
(* The generated pipeline body is kept as the list of statements that the   *)
(* templates of the transformations table are made of, with their #next,    *)
(* #e, #+e, #k, #+k and #argN directives, and is then executed on a         *)
(* receiver value one loop iteration at a time.                             *)
(***************************************************************************)
EXTENDS Integers, Sequences, FiniteSets, TLC

VARIABLES
    sites,      \* the program: one method chain (with its receiver type) per call site
    input,      \* the value of the receiver of every call site
    pc,         \* "walk" | "fatal" | "builderror" | "run" | "looping" | "panic" | "done"
    site,       \* the call site being walked or run (1-based)
    upto,       \* walking: calls 1..upto of the site are still to be visited;
                \* running: the segment of the site that runs next
    files,      \* s.pkg.Files: the generated declarations, in the order they were added
    counts,     \* the counters of safePipeName and safeTypeName
    segs,       \* per site: how each part of the chain was rewritten, innermost first
    rt,         \* the state of the generated pipeline method while it runs
    val,        \* running: the value of the chain so far (the receiver of the next segment)
    calls,      \* running: the calls made so far to the function arguments of the site
    registry    \* the params array of each entry of the transformations table, by
                \* method name: the part of an entry that a copy of the struct shares

vars == <<sites, input, pc, site, upto, files, counts, segs, rt, val, calls, registry>>

\* ---------------------------------------------------------------- bounds

\* longest receiver slice, and largest element / key of a receiver
MaxLen == 2
MaxElem == 2
\* longest method chain of a call site whose generated code is also run
MaxChain == 2
\* longest method chain of a call site that is only compiled
MaxWalkChain == 3
\* the largest argument of drop and take, the longest chain and the longest
\* receiver of the programs made of drop, take and filter
MaxCount == 2
MaxTakeDropChain == 3
MaxTakeDropLen == 3

\* the longest receiver of the fold of src/gen.go
MaxFoldLen == 4

\* the most names one compilation takes from safeTypeName, and from each of
\* safePipeName and safeFnName
MaxNames == 11
MaxOtherNames == 2

\* ------------------------------------------------------- generic helpers

Min(a, b) == IF a < b THEN a ELSE b

Range(s) == {s[i] : i \in 1..Len(s)}

Reverse(s) == [i \in 1..Len(s) |-> s[Len(s) + 1 - i]]

RECURSIVE Flatten(_)
Flatten(ss) == IF ss = <<>> THEN <<>> ELSE Head(ss) \o Flatten(Tail(ss))

SeqsUpTo(S, n) == UNION {[1..m -> S] : m \in 0..n}

\* s[lo-1:hi] of Go, for 1 <= lo
Slice(s, lo, hi) == IF lo > hi THEN <<>> ELSE SubSeq(s, lo, hi)

\* ------------------------------------------------------------------ types

\* A Go type, as far as the compiler looks at it: name is the name of a
\* defined (named) type or "", kind is the shape of the underlying type.
SliceOf(e) == [name |-> "", kind |-> "slice", key |-> "", elem |-> e]
MapOf(k, e) == [name |-> "", kind |-> "map", key |-> k, elem |-> e]
Basic(b) == [name |-> "", kind |-> "basic", key |-> "", elem |-> b]
Void == [name |-> "", kind |-> "void", key |-> "", elem |-> ""]
Invalid == [name |-> "", kind |-> "invalid", key |-> "", elem |-> ""]

\* type ints []int, with   func (ints) filter(func(x int) bool) ints { return ints{7} }
Ints == [name |-> "ints", kind |-> "slice", key |-> "", elem |-> "int"]

\* a defined type  type myint int  of a program
MyInt == [name |-> "myint", kind |-> "basic", key |-> "", elem |-> "int"]

\* the type of the predeclared nil, and the place of the receiver in a call of
\* a function (an *ast.Ident, not an *ast.SelectorExpr)
UntypedNil == [name |-> "", kind |-> "nil", key |-> "", elem |-> ""]
NoRecv == [name |-> "", kind |-> "pkg", key |-> "", elem |-> ""]

Underlying(t) == [t EXCEPT !.name = ""]

\* the methods a named type declares itself
UserMethods(t) == IF t.name = "ints" THEN {"filter"} ELSE {}

\* the value a user method returns, whatever its receiver and argument
UserFilterResult == [isnil |-> FALSE, s |-> <<7>>]

\* ------------------------------------------------- functions passed as arguments

\* A call argument: a named function, or an int or bool literal (n holds the
\* int, or 1/0 for true/false).
Fn(f) == [ty |-> "func", f |-> f, n |-> 0]
IntLit(n) == [ty |-> "int", f |-> "", n |-> n]
BoolLit(b) == [ty |-> "bool", f |-> "", n |-> IF b THEN 1 ELSE 0]

\* Arguments of the ply functions: a variable of type int or myint that holds
\* n, a constant of type myint, a variable of type map[int]int that holds the
\* n-th map of the program (the nil map when that one is nil), and nil.
Var(ty, n) == [ty |-> ty, f |-> "var", n |-> n]
Const(ty, n) == [ty |-> ty, f |-> "", n |-> n]
MapRef(n) == [ty |-> "map", f |-> "var", n |-> n]
NilLit == [ty |-> "nil", f |-> "", n |-> 0]

ArgValue(a) ==
    CASE a.ty \in {"int", "myint", "map", "nil"} -> a.n
      [] a.ty = "bool" -> (a.n = 1)
      [] OTHER -> a.f

\* the signature of each function the modelled programs pass
Sig(f) ==
    CASE f \in {"even", "lt3", "gt3", "gt1"} -> [params |-> <<"int">>, results |-> <<"bool">>]
      [] f \in {"double", "square"} -> [params |-> <<"int">>, results |-> <<"int">>]
      [] f = "side" -> [params |-> <<"int">>, results |-> <<>>]
      [] f = "and" -> [params |-> <<"bool", "bool">>, results |-> <<"bool">>]
      [] f \in {"add", "sub"} -> [params |-> <<"int", "int">>, results |-> <<"int">>]
      [] f = "meven" -> [params |-> <<"int", "int">>, results |-> <<"bool">>]
      [] f = "setpred" -> [params |-> <<"int", "struct{}">>, results |-> <<"bool">>]
      [] f \in {"mdouble", "mone"} -> [params |-> <<"int", "int">>, results |-> <<"int", "int">>]
      [] f = "setpair" -> [params |-> <<"int", "struct{}">>, results |-> <<"int", "int">>]
      [] OTHER -> [params |-> <<>>, results |-> <<>>]

\* what each of them returns (the tuple of its results)
Apply(f, xs) ==
    CASE f = "even" -> <<xs[1] % 2 = 0>>
      [] f = "lt3" -> <<xs[1] < 3>>
      [] f = "gt3" -> <<xs[1] > 3>>
      [] f = "gt1" -> <<xs[1] > 1>>
      [] f = "double" -> <<2 * xs[1]>>
      [] f = "square" -> <<xs[1] * xs[1]>>
      [] f = "side" -> <<>>
      [] f = "and" -> <<xs[1] /\ xs[2]>>
      [] f = "add" -> <<xs[1] + xs[2]>>
      [] f = "sub" -> <<xs[1] - xs[2]>>
      [] f = "meven" -> <<xs[1] % 2 = 0>>
      [] f = "setpred" -> <<xs[1] % 2 = 0>>
      [] f = "mdouble" -> <<2 * xs[1], 2 * xs[2]>>
      [] f = "mone" -> <<1, xs[2]>>
      [] f = "setpair" -> <<xs[1], 1>>
      [] OTHER -> <<>>

\* ------------------------------------------------------------ the type checker

Call(sel, args) == [sel |-> sel, args |-> args]

IsFunc(a, params, results) ==
    a.ty = "func" /\ Sig(a.f).params = params /\ Sig(a.f).results = results

\* Checker.plySpecialMethod: the result type of a special method call, or Invalid
plySpecialMethod(recv, call) ==
    LET u == Underlying(recv)
        n == Len(call.args)
        a == call.args[1]
    IN  IF n < 1 THEN Invalid
        ELSE CASE call.sel = "contains" /\ n = 1 ->
                    \* both the slice and the map case assign the argument to recv.Elem()
                    IF a.ty = u.elem THEN Basic("bool") ELSE Invalid
               [] call.sel = "fold" /\ u.kind = "slice" /\ n <= 2 ->
                    IF a.ty = "func" /\ Len(Sig(a.f).params) = 2 /\ Len(Sig(a.f).results) = 1
                    THEN LET U == Sig(a.f).results[1]
                         IN  IF Sig(a.f).params = <<U, u.elem>>
                                /\ (IF n = 2 THEN call.args[2].ty = U ELSE u.elem = U)
                             THEN Basic(U) ELSE Invalid
                    ELSE Invalid
               [] call.sel = "morph" /\ u.kind = "slice" /\ n = 1 ->
                    IF a.ty = "func" /\ Sig(a.f).params = <<u.elem>> /\ Len(Sig(a.f).results) = 1
                    THEN SliceOf(Sig(a.f).results[1]) ELSE Invalid
               [] call.sel = "morph" /\ u.kind = "map" /\ n = 1 ->
                    IF a.ty = "func" /\ Sig(a.f).params = <<u.key, u.elem>>
                       /\ Len(Sig(a.f).results) = 2
                    THEN MapOf(Sig(a.f).results[1], Sig(a.f).results[2]) ELSE Invalid
               [] OTHER -> Invalid

\* lookupPlyMethod, and the check of an ordinary ply method's arguments
\* against the signature it returns: the result type of the call, or Invalid
lookupPlyMethod(recv, call) ==
    LET u == Underlying(recv)
        pred == [params |-> <<u.elem>>, results |-> <<"bool">>]
        side == [params |-> <<u.elem>>, results |-> <<>>]
        mpred == [params |-> <<u.key, u.elem>>, results |-> <<"bool">>]
        one(sig) == Len(call.args) = 1 /\ IsFunc(call.args[1], sig.params, sig.results)
        int == Len(call.args) = 1 /\ call.args[1].ty = "int"
        none == call.args = <<>>
    IN  CASE u.kind = "slice" /\ call.sel \in {"all", "any"} ->
                IF one(pred) THEN Basic("bool") ELSE Invalid
          [] u.kind = "slice" /\ call.sel \in {"drop", "take"} ->
                IF int THEN recv ELSE Invalid
          [] u.kind = "slice" /\ call.sel \in {"dropWhile", "filter", "takeWhile"} ->
                IF one(pred) THEN recv ELSE Invalid
          [] u.kind = "slice" /\ call.sel = "foreach" ->
                IF one(side) THEN Void ELSE Invalid
          [] u.kind = "slice" /\ call.sel \in {"reverse", "uniq"} ->
                IF none THEN recv ELSE Invalid
          [] u.kind = "slice" /\ call.sel = "tee" ->
                IF one(side) THEN recv ELSE Invalid
          [] u.kind = "slice" /\ call.sel = "toSet" ->
                IF none THEN MapOf(u.elem, "struct{}") ELSE Invalid
          [] u.kind = "slice" /\ call.sel \in {"contains", "fold", "morph"} ->
                plySpecialMethod(recv, call)
          [] u.kind = "map" /\ call.sel = "elems" ->
                IF none THEN SliceOf(u.elem) ELSE Invalid
          [] u.kind = "map" /\ call.sel = "filter" ->
                IF one(mpred) THEN recv ELSE Invalid
          [] u.kind = "map" /\ call.sel = "keys" ->
                IF none THEN SliceOf(u.key) ELSE Invalid
          [] u.kind = "map" /\ call.sel \in {"contains", "morph"} ->
                plySpecialMethod(recv, call)
          [] OTHER -> Invalid

\* the type of an argument of a ply function, whether it is an untyped
\* constant, and whether it is a constant
ArgType(a) ==
    CASE a.ty = "myint" -> MyInt
      [] a.ty = "map" -> MapOf("int", "int")
      [] a.ty = "nil" -> UntypedNil
      [] OTHER -> Basic(a.ty)
IsUntyped(a) == a.ty = "int" /\ a.f = ""
IsConstant(a) == a.ty \in {"int", "myint"} /\ a.f = ""

predeclaredPlyFuncs == {"max", "merge", "min"}

\* Checker.ply on a call of max, min or merge: the type of the call (Invalid
\* when the call is rejected) and whether the call is a constant
ply(call) ==
    LET n == Len(call.args)
        x == call.args[1]
        y == call.args[2]
        typed == {i \in 1..n : call.args[i].ty # "nil"}
        xt == IF IsUntyped(x) /\ ~IsUntyped(y) THEN ArgType(y) ELSE ArgType(x)
        yt == IF IsUntyped(y) /\ ~IsUntyped(x) THEN ArgType(x) ELSE ArgType(y)
        no == [type |-> Invalid, constant |-> FALSE]
    IN  CASE call.sel = "merge" /\ n >= 2 ->
                IF \A i \in 1..n : call.args[i].ty \in {"map", "nil"}
                THEN [type |-> IF typed = {} THEN UntypedNil
                               ELSE ArgType(call.args[CHOOSE i \in typed : \A j \in typed : i <= j]),
                      constant |-> FALSE]
                ELSE no
          [] call.sel \in {"max", "min"} /\ n = 2 ->
                IF xt.kind = "basic" /\ xt.elem = "int" /\ xt = yt
                THEN [type |-> xt, constant |-> IsConstant(x) /\ IsConstant(y)]
                ELSE no
          [] OTHER -> no

\* the type of recv.sel(args): a method the receiver's type declares itself is
\* found before any ply method; the type of sel(args) for a ply function
CallType(recv, call) ==
    IF recv.kind = "pkg"
    THEN IF call.sel \in predeclaredPlyFuncs THEN ply(call).type ELSE Invalid
    ELSE
    IF call.sel \in UserMethods(recv)
    THEN IF Len(call.args) = 1 /\ IsFunc(call.args[1], <<"int">>, <<"bool">>)
         THEN recv ELSE Invalid
    ELSE lookupPlyMethod(recv, call)

\* exprTypes: the type of the expression made of the receiver and the first
\* i calls of the chain
RECURSIVE ExprType(_, _, _)
ExprType(recv, chain, i) ==
    IF i = 0 THEN recv
    ELSE LET t == ExprType(recv, chain, i - 1)
         IN  IF t.kind = "invalid" THEN Invalid ELSE CallType(t, chain[i])

WellTyped(recv, chain) == ExprType(recv, chain, Len(chain)).kind # "invalid"

\* ------------------------------------------- the statements of the templates

\* A variable directive or name: the directives "#e", "#+e", "#k", "#+k" of the
\* templates, a name "e"/"k" with its number once addSector has set it, or none.
NoV == [t |-> "", n |-> 0]
HashE == [t |-> "#e", n |-> 0]
HashPlusE == [t |-> "#+e", n |-> 0]
HashK == [t |-> "#k", n |-> 0]
HashPlusK == [t |-> "#+k", n |-> 0]
VarName(t, n) == [t |-> t, n |-> n]

\* An argument directive or name: "#argN" in a template, "__plyarg_N" once
\* specify has replaced it, or a plain identifier of the template text.
NoA == [t |-> "", n |-> 0]
HashArg(j) == [t |-> "#arg", n |-> j]
PlyArg(n) == [t |-> "__plyarg_", n |-> n]
Ident(name) == [t |-> name, n |-> 0]

\* One statement of a template.  op says which statement it is; v is the local
\* variable it names; e and k are the element and key variable it reads, ne and
\* nk those it declares; a is the argument it uses; tk and te are the key and
\* element type of the variable it declares.
St(op) ==
    [op |-> op, v |-> "", e |-> NoV, ne |-> NoV, k |-> NoV, nk |-> NoV,
     a |-> NoA, tk |-> "", te |-> ""]

\* the #next directive
NEXT == St("#next")

\* var v []te ... return v
SliceOutline(v, te) ==
    << [St("var") EXCEPT !.v = v, !.te = te], NEXT, [St("return") EXCEPT !.v = v] >>

\* v := make(map[tk]te) ... return v
MapOutline(v, tk, te) ==
    << [St("make") EXCEPT !.v = v, !.tk = tk, !.te = te], NEXT,
       [St("return") EXCEPT !.v = v] >>

\* ... return true / return false
BoolOutline(b) == << NEXT, [St("returnlit") EXCEPT !.v = b] >>

\* for _, #e := range recv { ... }
SliceLoop == << [St("for") EXCEPT !.ne = HashE], NEXT, St("}") >>

\* for #k, #e := range recv { ... }
MapLoop == << [St("formap") EXCEPT !.nk = HashK, !.ne = HashE], NEXT, St("}") >>

\* v = append(v, #e)
AppendCons(v) == << [St("append") EXCEPT !.v = v, !.e = HashE] >>

\* a parameter or result type of a transformation: a function type or a plain type
FuncT(params, results) == [kind |-> "func", params |-> params, results |-> results]
PlainT(t) == [kind |-> "plain", params |-> <<>>, results |-> <<t>>]

Pred == FuncT(<<"#T">>, <<"bool">>)

\* ------------------------------------------------- the transformations table

\* type transformation struct.  An absent section is the empty list, as it is
\* the empty string in the table.
Transformation(recv, params, ret, outline, setup, loop, op, cons, typeFn) ==
    [recv |-> recv, params |-> params, ret |-> ret, outline |-> outline,
     setup |-> setup, loop |-> loop, op |-> op, cons |-> cons, typeFn |-> typeFn]

all_slice ==
    Transformation(SliceOf("#T"), <<Pred>>, Basic("bool"),
        BoolOutline("true"), <<>>, SliceLoop, <<>>,
        \* if !#arg1(#e) { return false }
        << [St("all") EXCEPT !.a = HashArg(1), !.e = HashE] >>,
        "justSliceElem")

any_slice ==
    Transformation(SliceOf("#T"), <<Pred>>, Basic("bool"),
        BoolOutline("false"), <<>>, SliceLoop, <<>>,
        \* if #arg1(#e) { return true }
        << [St("any") EXCEPT !.a = HashArg(1), !.e = HashE] >>,
        "justSliceElem")

contains_slice ==
    Transformation(SliceOf("#T"), <<PlainT("#T")>>, Basic("bool"),
        BoolOutline("false"), <<>>, SliceLoop, <<>>,
        \* if #e == #arg1 { return true }
        << [St("contains") EXCEPT !.a = HashArg(1), !.e = HashE] >>,
        "justSliceElem")

containsNil_slice ==
    Transformation(SliceOf("#T"), <<PlainT("#T")>>, Basic("bool"),
        BoolOutline("false"), <<>>, SliceLoop, <<>>,
        \* if #e == nil { return true }
        << [St("containsNil") EXCEPT !.e = HashE] >>,
        "justSliceElem")

\* a drop that skips elements only when it is the first of the chain
drop_slice_NoOp ==
    Transformation(SliceOf("#T"), <<PlainT("int")>>, SliceOf("#T"),
        SliceOutline("undropped", "#T"),
        << [St("ndropped:=0") EXCEPT !.a = HashArg(1)], NEXT >>,
        << [St("clamp") EXCEPT !.a = HashArg(1)],
           [St("ndropped=arg") EXCEPT !.a = HashArg(1)],
           [St("forfrom") EXCEPT !.a = HashArg(1), !.ne = HashE], NEXT, St("}") >>,
        << NEXT >>,
        AppendCons("undropped"),
        "justSliceElem")

drop_slice ==
    Transformation(SliceOf("#T"), <<PlainT("int")>>, SliceOf("#T"),
        SliceOutline("undropped", "#T"),
        \* ndropped#arg1 := 0
        << [St("ndropped:=0") EXCEPT !.a = HashArg(1)], NEXT >>,
        \* if #arg1 > len(recv) { #arg1 = len(recv) }
        \* ndropped#arg1 = #arg1
        \* for _, #e := range recv[#arg1:] { ... }
        << [St("clamp") EXCEPT !.a = HashArg(1)],
           [St("ndropped=arg") EXCEPT !.a = HashArg(1)],
           [St("forfrom") EXCEPT !.a = HashArg(1), !.ne = HashE], NEXT, St("}") >>,
        \* if ndropped#arg1++; ndropped#arg1 <= #arg1 { continue }
        << [St("drop") EXCEPT !.a = HashArg(1)], NEXT >>,
        AppendCons("undropped"),
        "justSliceElem")

dropWhile_slice ==
    Transformation(SliceOf("#T"), <<Pred>>, SliceOf("#T"),
        SliceOutline("undropped", "#T"),
        \* stilldropping#arg1 := true
        << [St("stilldropping:=true") EXCEPT !.a = HashArg(1)], NEXT >>,
        SliceLoop,
        \* stilldropping#arg1 = stilldropping#arg1 && #arg1(#e)
        \* if stilldropping#arg1 { continue }
        << [St("dropWhile") EXCEPT !.a = HashArg(1), !.e = HashE], NEXT >>,
        AppendCons("undropped"),
        "justSliceElem")

filter_slice ==
    Transformation(SliceOf("#T"), <<Pred>>, SliceOf("#T"),
        SliceOutline("filtered", "#T"), <<>>, SliceLoop,
        \* if !#arg1(#e) { continue }
        << [St("filter") EXCEPT !.a = HashArg(1), !.e = HashE], NEXT >>,
        AppendCons("filtered"),
        "justSliceElem")

fold_slice ==
    Transformation(SliceOf("#T"), <<FuncT(<<"#U", "#T">>, <<"#U">>), PlainT("#U")>>,
        Basic("#U"),
        \* acc := #arg1 ... return acc
        << [St("acc:=") EXCEPT !.v = "acc", !.a = HashArg(1)], NEXT,
           [St("return") EXCEPT !.v = "acc"] >>,
        <<>>, SliceLoop, <<>>,
        \* acc = #arg1(acc, #e)
        << [St("fold") EXCEPT !.v = "acc", !.a = HashArg(1), !.e = HashE] >>,
        "foldTypes")

\* a fold from the first element that does not check that there was one
fold1_slice_NoCheck ==
    Transformation(SliceOf("#T"), <<FuncT(<<"#T", "#T">>, <<"#T">>)>>, Basic("#T"),
        << [St("varacc") EXCEPT !.v = "acc", !.te = "#T"], NEXT,
           [St("return") EXCEPT !.v = "acc"] >>,
        <<>>, SliceLoop, <<>>,
        << [St("fold1") EXCEPT !.v = "acc", !.a = HashArg(1), !.e = HashE] >>,
        "justSliceElem")

fold1_slice ==
    Transformation(SliceOf("#T"), <<FuncT(<<"#T", "#T">>, <<"#T">>)>>, Basic("#T"),
        \* var acc #T; var accset bool ... if !accset { panic(...) }; return acc
        << [St("varacc") EXCEPT !.v = "acc", !.te = "#T"], NEXT,
           [St("checkaccset") EXCEPT !.v = "acc"],
           [St("return") EXCEPT !.v = "acc"] >>,
        <<>>, SliceLoop, <<>>,
        \* if !accset { acc = #e; accset = true } else { acc = #arg1(acc, #e) }
        << [St("fold1") EXCEPT !.v = "acc", !.a = HashArg(1), !.e = HashE] >>,
        "justSliceElem")

foreach_slice ==
    Transformation(SliceOf("#T"), <<FuncT(<<"#T">>, <<>>)>>, Void,
        << NEXT >>, <<>>, SliceLoop, <<>>,
        \* #arg1(#e)
        << [St("call") EXCEPT !.a = HashArg(1), !.e = HashE] >>,
        "justSliceElem")

morph_slice ==
    Transformation(SliceOf("#T"), <<FuncT(<<"#T">>, <<"#U">>)>>, SliceOf("#U"),
        SliceOutline("morphed", "#U"), <<>>, SliceLoop,
        \* #+e := #arg1(#e)
        << [St("morph") EXCEPT !.ne = HashPlusE, !.a = HashArg(1), !.e = HashE], NEXT >>,
        AppendCons("morphed"),
        "morphSliceTypes")

\* a reverse whose outline does not swap the elements it collected
reverse_slice_NoSwap ==
    Transformation(SliceOf("#T"), <<>>, SliceOf("#T"),
        << [St("var") EXCEPT !.v = "reversed", !.te = "#T"], NEXT,
           [St("return") EXCEPT !.v = "reversed"] >>,
        <<>>,
        << [St("forreverse") EXCEPT !.ne = HashE], NEXT, St("}") >>,
        <<>>,
        AppendCons("reversed"),
        "justSliceElem")

reverse_slice ==
    Transformation(SliceOf("#T"), <<>>, SliceOf("#T"),
        \* var reversed []#T ... (swap loop); return reversed
        << [St("var") EXCEPT !.v = "reversed", !.te = "#T"], NEXT,
           [St("reverseinplace") EXCEPT !.v = "reversed"],
           [St("return") EXCEPT !.v = "reversed"] >>,
        <<>>,
        \* for i := range recv { #e := recv[len(recv)-i-1] ... }
        << [St("forreverse") EXCEPT !.ne = HashE], NEXT, St("}") >>,
        <<>>,
        AppendCons("reversed"),
        "justSliceElem")

take_slice ==
    Transformation(SliceOf("#T"), <<PlainT("int")>>, SliceOf("#T"),
        SliceOutline("taken", "#T"),
        \* ntaken#arg1 := 0
        << [St("ntaken:=0") EXCEPT !.a = HashArg(1)], NEXT >>,
        SliceLoop,
        \* if ntaken#arg1++; ntaken#arg1 > #arg1 { break }
        << [St("take") EXCEPT !.a = HashArg(1)], NEXT >>,
        AppendCons("taken"),
        "justSliceElem")

takeWhile_slice ==
    Transformation(SliceOf("#T"), <<Pred>>, SliceOf("#T"),
        SliceOutline("taken", "#T"), <<>>, SliceLoop,
        \* if !arg1(#e) { break }
        << [St("takeWhile") EXCEPT !.a = Ident("arg1"), !.e = HashE], NEXT >>,
        AppendCons("taken"),
        "justSliceElem")

\* a tee that does not call its argument
tee_slice_NoCall ==
    Transformation(SliceOf("#T"), <<FuncT(<<"#T">>, <<>>)>>, SliceOf("#T"),
        << NEXT, St("returnrecv") >>, <<>>, SliceLoop, << NEXT >>, <<>>, "justSliceElem")

tee_slice ==
    Transformation(SliceOf("#T"), <<FuncT(<<"#T">>, <<>>)>>, SliceOf("#T"),
        \* ... return recv
        << NEXT, St("returnrecv") >>,
        <<>>, SliceLoop,
        \* #arg1(#e)
        << [St("call") EXCEPT !.a = HashArg(1), !.e = HashE], NEXT >>,
        <<>>,
        "justSliceElem")

toSet_slice ==
    Transformation(SliceOf("#T"), <<>>, MapOf("#T", "struct{}"),
        MapOutline("set", "#T", "struct{}"), <<>>, SliceLoop, <<>>,
        \* set[#e] = struct{}{}
        << [St("setadd") EXCEPT !.v = "set", !.e = HashE] >>,
        "justSliceElem")

elems_map ==
    Transformation(MapOf("#T", "#U"), <<>>, SliceOf("#U"),
        SliceOutline("elems", "#U"), <<>>,
        \* for _, #e := range recv { ... }
        SliceLoop, <<>>,
        AppendCons("elems"),
        "justMapKeyElem")

filter_map ==
    Transformation(MapOf("#T", "#U"), <<FuncT(<<"#T", "#U">>, <<"bool">>)>>, MapOf("#T", "#U"),
        MapOutline("filtered", "#T", "#U"), <<>>, MapLoop,
        \* if !#arg1(#k, #e) { continue }
        << [St("filtermap") EXCEPT !.a = HashArg(1), !.k = HashK, !.e = HashE], NEXT >>,
        \* filtered[#k] = #e
        << [St("mapset") EXCEPT !.v = "filtered", !.k = HashK, !.e = HashE] >>,
        "justMapKeyElem")

keys_map ==
    Transformation(MapOf("#T", "#U"), <<>>, SliceOf("#T"),
        SliceOutline("keys", "#T"), <<>>,
        \* for #e := range recv { ... }
        << [St("forkeys") EXCEPT !.ne = HashE], NEXT, St("}") >>,
        <<>>,
        AppendCons("keys"),
        "justMapKeyElem")

\* a morph that stores only the new element, as a key
morph_map_ElemAsKey ==
    Transformation(MapOf("#T", "#U"), <<FuncT(<<"#T", "#U">>, <<"#V", "#W">>)>>,
        MapOf("#V", "#W"),
        MapOutline("morphed", "#V", "#W"), <<>>, MapLoop,
        << [St("morphmap") EXCEPT !.nk = HashPlusK, !.ne = HashPlusE, !.a = HashArg(1),
                                   !.k = HashK, !.e = HashE], NEXT >>,
        << [St("setadd") EXCEPT !.v = "morphed", !.k = HashK, !.e = HashE] >>,
        "morphMapTypes")

morph_map ==
    Transformation(MapOf("#T", "#U"), <<FuncT(<<"#T", "#U">>, <<"#V", "#W">>)>>,
        MapOf("#V", "#W"),
        MapOutline("morphed", "#V", "#W"), <<>>, MapLoop,
        \* #+k, #+e := #arg1(#k, #e)
        << [St("morphmap") EXCEPT !.nk = HashPlusK, !.ne = HashPlusE, !.a = HashArg(1),
                                   !.k = HashK, !.e = HashE], NEXT >>,
        \* morphed[#k] = #e
        << [St("mapset") EXCEPT !.v = "morphed", !.k = HashK, !.e = HashE] >>,
        "morphMapTypes")

TransformationNames ==
    {"all_slice", "any_slice", "contains_slice", "containsNil_slice", "drop_slice",
     "dropWhile_slice", "filter_slice", "fold_slice", "fold1_slice", "foreach_slice",
     "morph_slice", "reverse_slice", "take_slice", "takeWhile_slice", "tee_slice",
     "toSet_slice", "elems_map", "filter_map", "keys_map", "morph_map"}

transformations(name) ==
    CASE name = "all_slice" -> all_slice
      [] name = "any_slice" -> any_slice
      [] name = "contains_slice" -> contains_slice
      [] name = "containsNil_slice" -> containsNil_slice
      [] name = "drop_slice" -> drop_slice
      [] name = "dropWhile_slice" -> dropWhile_slice
      [] name = "filter_slice" -> filter_slice
      [] name = "fold_slice" -> fold_slice
      [] name = "fold1_slice" -> fold1_slice
      [] name = "foreach_slice" -> foreach_slice
      [] name = "morph_slice" -> morph_slice
      [] name = "reverse_slice" -> reverse_slice
      [] name = "take_slice" -> take_slice
      [] name = "takeWhile_slice" -> takeWhile_slice
      [] name = "tee_slice" -> tee_slice
      [] name = "toSet_slice" -> toSet_slice
      [] name = "elems_map" -> elems_map
      [] name = "filter_map" -> filter_map
      [] name = "keys_map" -> keys_map
      [] name = "morph_map" -> morph_map

\* ------------------------------------------------------------------ specify

\* the typeFn of a transformation: the types T, U, V, W of a call, given the
\* type of its receiver and its arguments
TypeFn(typeFn, xt, args) ==
    CASE typeFn = "justSliceElem" -> << Underlying(xt).elem >>
      [] typeFn = "justMapKeyElem" -> << Underlying(xt).key, Underlying(xt).elem >>
      [] typeFn = "foldTypes" -> << Sig(args[1].f).params[2], Sig(args[1].f).params[1] >>
      [] typeFn = "morphSliceTypes" -> << Sig(args[1].f).params[1], Sig(args[1].f).results[1] >>
      [] typeFn = "morphMapTypes" ->
            << Sig(args[1].f).params[1], Sig(args[1].f).params[2],
               Sig(args[1].f).results[1], Sig(args[1].f).results[2] >>

\* strings.Replace(templ, "#T", typs[0]) and so on for #U, #V, #W, on one type name
ReplaceType(t, typs) ==
    CASE t = "#T" /\ Len(typs) >= 1 -> typs[1]
      [] t = "#U" /\ Len(typs) >= 2 -> typs[2]
      [] t = "#V" /\ Len(typs) >= 3 -> typs[3]
      [] t = "#W" /\ Len(typs) >= 4 -> typs[4]
      [] OTHER -> t

\* a replacement that numbers the arguments of every call from 0
ReplaceArg_FromZero(a, nCallArgs, nargs) ==
    IF a.t = "#arg" /\ a.n \in 1..nCallArgs THEN PlyArg(a.n - 1) ELSE a

\* strings.Replace(templ, "#arg"+(i+1), "__plyarg_"+(i+nargs)) for each argument
\* i of the call, on one argument directive
ReplaceArg(a, nCallArgs, nargs) ==
    IF a.t = "#arg" /\ a.n \in 1..nCallArgs THEN PlyArg(a.n - 1 + nargs) ELSE a

SpecifyStmts(stmts, typs, nCallArgs, nargs) ==
    [i \in 1..Len(stmts) |->
        [stmts[i] EXCEPT !.tk = ReplaceType(@, typs), !.te = ReplaceType(@, typs),
                         !.a = ReplaceArg(@, nCallArgs, nargs)]]

SpecifyType(t, typs) ==
    [t EXCEPT !.key = ReplaceType(@, typs), !.elem = ReplaceType(@, typs)]

SpecifyParam(pt, typs) ==
    [pt EXCEPT !.params = [i \in 1..Len(@) |-> ReplaceType(@[i], typs)],
               !.results = [i \in 1..Len(@) |-> ReplaceType(@[i], typs)]]

\* transformation.specify: a copy of t with the types and the arguments of the
\* call put in; xt is the type of the call's receiver
specify(t, call, nargs, xt) ==
    LET typs == TypeFn(t.typeFn, xt, call.args)
        n == Len(call.args)
    IN  [recv |-> SpecifyType(t.recv, typs),
         params |-> [i \in 1..Len(t.params) |-> SpecifyParam(t.params[i], typs)],
         ret |-> SpecifyType(t.ret, typs),
         outline |-> SpecifyStmts(t.outline, typs, n, nargs),
         setup |-> SpecifyStmts(t.setup, typs, n, nargs),
         loop |-> SpecifyStmts(t.loop, typs, n, nargs),
         op |-> SpecifyStmts(t.op, typs, n, nargs),
         cons |-> SpecifyStmts(t.cons, typs, n, nargs),
         typeFn |-> t.typeFn]

\* ---------------------------------------------------------------- addSector

HasNext(code) == \E i \in 1..Len(code) : code[i].op = "#next"

\* strings.Replace(outer, "#next", inner, 1)
ReplaceFirstNext(outer, inner) ==
    IF ~HasNext(outer) THEN outer
    ELSE LET i == CHOOSE j \in 1..Len(outer) :
                    /\ outer[j].op = "#next"
                    /\ \A h \in 1..(j - 1) : outer[h].op # "#next"
         IN  SubSeq(outer, 1, i - 1) \o inner \o SubSeq(outer, i + 1, Len(outer))

\* strings.Replace(code, from, to, -1) for a variable directive
ReplaceVar(code, from, to) ==
    [i \in 1..Len(code) |->
        [code[i] EXCEPT !.e = IF @ = from THEN to ELSE @,
                        !.ne = IF @ = from THEN to ELSE @,
                        !.k = IF @ = from THEN to ELSE @,
                        !.nk = IF @ = from THEN to ELSE @]]

\* strings.Contains(code, directive)
ContainsVar(code, v) ==
    \E i \in 1..Len(code) : v \in {code[i].e, code[i].ne, code[i].k, code[i].nk}

\* an addSector that names #+e and #+k without incrementing the counters
addSector_NoIncrement(p, inner) ==
    IF inner = <<>> THEN p
    ELSE LET c1 == ReplaceVar(ReplaceFirstNext(p.code, inner), HashE, VarName("e", p.en))
             c2 == ReplaceVar(c1, HashPlusE, VarName("e", p.en))
             c3 == ReplaceVar(c2, HashK, VarName("k", p.kn))
             c4 == ReplaceVar(c3, HashPlusK, VarName("k", p.en))
         IN  [code |-> c4, en |-> p.en, kn |-> p.kn]

\* pipeline.addSector: p is the pipeline's counters and the code so far; the
\* result is the counters and the code with inner put in at #next
addSector(p, inner) ==
    IF inner = <<>> THEN p
    ELSE LET c1 == ReplaceVar(ReplaceFirstNext(p.code, inner), HashE, VarName("e", p.en))
             en2 == IF ContainsVar(c1, HashPlusE) THEN p.en + 1 ELSE p.en
             c2 == ReplaceVar(c1, HashPlusE, VarName("e", en2))
             c3 == ReplaceVar(c2, HashK, VarName("k", p.kn))
             kn2 == IF ContainsVar(c3, HashPlusK) THEN p.kn + 1 ELSE p.kn
             \* the new key variable is named after the element counter
             c4 == ReplaceVar(c3, HashPlusK, VarName("k", en2))
         IN  [code |-> c4, en |-> en2, kn |-> kn2]

RECURSIVE AddSectors(_, _)
AddSectors(p, inners) ==
    IF inners = <<>> THEN p ELSE AddSectors(addSector(p, Head(inners)), Tail(inners))

\* ------------------------------------------------------------ buildPipeline

\* e.Sel.Name + "_slice" and e.Sel.Name + "_map", for the method names of the
\* modelled programs
SliceMethodName(sel) ==
    CASE sel = "all" -> "all_slice"
      [] sel = "any" -> "any_slice"
      [] sel = "contains" -> "contains_slice"
      [] sel = "drop" -> "drop_slice"
      [] sel = "dropWhile" -> "dropWhile_slice"
      [] sel = "elems" -> "elems_slice"
      [] sel = "filter" -> "filter_slice"
      [] sel = "fold" -> "fold_slice"
      [] sel = "foreach" -> "foreach_slice"
      [] sel = "keys" -> "keys_slice"
      [] sel = "morph" -> "morph_slice"
      [] sel = "reverse" -> "reverse_slice"
      [] sel = "take" -> "take_slice"
      [] sel = "takeWhile" -> "takeWhile_slice"
      [] sel = "tee" -> "tee_slice"
      [] sel = "toSet" -> "toSet_slice"
      [] sel = "uniq" -> "uniq_slice"

MapMethodName(sel) ==
    CASE sel = "all" -> "all_map"
      [] sel = "any" -> "any_map"
      [] sel = "contains" -> "contains_map"
      [] sel = "drop" -> "drop_map"
      [] sel = "dropWhile" -> "dropWhile_map"
      [] sel = "elems" -> "elems_map"
      [] sel = "filter" -> "filter_map"
      [] sel = "fold" -> "fold_map"
      [] sel = "foreach" -> "foreach_map"
      [] sel = "keys" -> "keys_map"
      [] sel = "morph" -> "morph_map"
      [] sel = "reverse" -> "reverse_map"
      [] sel = "take" -> "take_map"
      [] sel = "takeWhile" -> "takeWhile_map"
      [] sel = "tee" -> "tee_map"
      [] sel = "toSet" -> "toSet_map"
      [] sel = "uniq" -> "uniq_map"

\* hasMethod: whether the method set of the type holds a method of that name
hasMethod(xt, method) == method \in UserMethods(xt)

NoPipeline == [ok |-> FALSE, kn |-> 1, en |-> 1, fns |-> <<>>, ts |-> <<>>, names |-> <<>>]

\* a buildPipeline that takes every first reverse for a reverse at the end
ReverseRule_AlwaysEnd(haveReverse, atEnd) == IF haveReverse THEN "delete" ELSE "end"

\* What buildPipeline does with a reverse it has just added: with a reverse
\* already at the end of the chain it deletes the new one and stops; the
\* outermost call (chain[0]) is a reverse at the end and the loop goes on; any
\* other is a reverse at the beginning, and the loop stops.
ReverseRule(haveReverse, atEnd) ==
    CASE haveReverse -> "delete"
      [] atEnd -> "end"
      [] OTHER -> "begin"

\* a buildPipeline that deletes the reverse at the beginning as well
ReverseAtBeginning_Deleted(b, added) == b

\* the pipeline when the loop stops at a reverse at the beginning of the
\* chain: the reverse just added stays in p.ts and p.fns
ReverseAtBeginning(b, added) == added

\* transformations[name] as buildPipeline reads it: the strings and types of
\* the declaration, and the params array that the table holds now
TableEntry(reg, name) == [transformations(name) EXCEPT !.params = reg[name]]

\* the params arrays of the table as declared
TableParams == [n \in TransformationNames |-> transformations(n).params]

\* The loop of buildPipeline over chain[0], chain[1], ...: the calls top,
\* top-1, ..., 1 of the site's chain (call 1 is the innermost).  b holds p.ts,
\* p.fns (as positions in the site's chain), the method names looked up, and
\* haveReverse.
RECURSIVE BuildLoop(_, _, _, _, _)
BuildLoop(recv, chain, top, i, b) ==
    IF i = 0 THEN b
    ELSE
    LET call == chain[i]
        xt == ExprType(recv, chain, i - 1)
        isSlice == Underlying(xt).kind = "slice"
        isMap == Underlying(xt).kind = "map"
        suffixed == IF isSlice THEN SliceMethodName(call.sel) ELSE MapMethodName(call.sel)
        methodName == IF suffixed = "fold_slice" /\ Len(call.args) = 1
                      THEN "fold1_slice" ELSE suffixed
        added == [b EXCEPT !.ts = <<TableEntry(registry, methodName)>> \o @,
                           !.fns = <<i>> \o @,
                           !.names = <<methodName>> \o @]
    IN  IF ~(isSlice \/ isMap) THEN b
        ELSE IF hasMethod(xt, suffixed) THEN b
        ELSE IF methodName \notin TransformationNames THEN b
        ELSE IF methodName = "reverse_slice"
             THEN CASE ReverseRule(b.haveReverse, i = top) = "delete" -> b
                    [] ReverseRule(b.haveReverse, i = top) = "end" ->
                         BuildLoop(recv, chain, top, i - 1,
                                   [added EXCEPT !.haveReverse = TRUE])
                    [] OTHER -> ReverseAtBeginning(b, added)
             ELSE BuildLoop(recv, chain, top, i - 1, added)

RECURSIVE NArgsBefore(_, _, _)
NArgsBefore(chain, fns, i) ==
    IF i <= 1 THEN 0
    ELSE NArgsBefore(chain, fns, i - 1) + Len(chain[fns[i - 1]].args)

\* a buildPipeline that returns a pipeline of a single method
buildPipeline_OneIsEnough(recv, chain, top) ==
    LET b == BuildLoop(recv, chain, top, top,
                       [ts |-> <<>>, fns |-> <<>>, names |-> <<>>, haveReverse |-> FALSE])
    IN  IF Len(b.ts) < 1 THEN NoPipeline
        ELSE [ok |-> TRUE, kn |-> 1, en |-> 1, fns |-> b.fns, names |-> b.names,
              ts |-> [i \in 1..Len(b.ts) |->
                        specify(b.ts[i], chain[b.fns[i]], NArgsBefore(chain, b.fns, i),
                                ExprType(recv, chain, b.fns[i] - 1))]]

\* buildPipeline(chain, exprTypes) for the chain that ends at call top of the
\* site: the pipeline, or NoPipeline for nil
buildPipeline(recv, chain, top) ==
    LET b == BuildLoop(recv, chain, top, top,
                       [ts |-> <<>>, fns |-> <<>>, names |-> <<>>, haveReverse |-> FALSE])
    IN  IF Len(b.ts) < 2 THEN NoPipeline
        ELSE [ok |-> TRUE, kn |-> 1, en |-> 1, fns |-> b.fns, names |-> b.names,
              ts |-> [i \in 1..Len(b.ts) |->
                        specify(b.ts[i], chain[b.fns[i]], NArgsBefore(chain, b.fns, i),
                                ExprType(recv, chain, b.fns[i] - 1))]]

\* ---------------------------------------------------------------------- gen

\* the names the generators hand out: prefix, counter, base name
GenName(prefix, n, base) == [prefix |-> prefix, n |-> n, base |-> base]

\* a safePipeName whose counter does not advance
safePipeName_Stuck(count) == GenName("__plypipe_", 1, "")

\* safePipeName, given the counter's value before the call
safePipeName(count) == GenName("__plypipe_", count + 1, "")

\* pipeline.gen: the generated type and method (recv, params, ret, body), the
\* arguments and the receiver (the first x calls of the chain) of the
\* rewritten call, and the pipeline's counters afterwards
gen(p, chain, count) ==
    LET first == p.ts[1]
        last == p.ts[Len(p.ts)]
        setups == [i \in 1..Len(p.ts) |-> p.ts[i].setup]
        ops == [i \in 1..Len(p.ts) |-> p.ts[i].op]
        q == AddSectors([code |-> last.outline, en |-> p.en, kn |-> p.kn],
                        setups \o <<first.loop>> \o ops \o <<last.cons>>)
    IN  [name |-> safePipeName(count),
         recv |-> first.recv,
         params |-> Flatten([i \in 1..Len(p.ts) |-> p.ts[i].params]),
         ret |-> last.ret,
         body |-> q.code,
         args |-> Flatten([i \in 1..Len(p.fns) |-> chain[p.fns[i]].args]),
         x |-> p.fns[1] - 1,
         en |-> q.en, kn |-> q.kn]

\* ------------------------------------------- the Go compiler on generated code

\* Whether Go accepts the generated method: the file parses (no directive is
\* left in it), every name it uses is declared before its use, every variable
\* it declares is used, and every statement is well typed.

Directives == {"#e", "#+e", "#k", "#+k", "#arg"}

\* the statement parses
StmtParses(st) ==
    /\ st.op # "#next"
    /\ {st.e.t, st.ne.t, st.k.t, st.nk.t, st.a.t} \cap Directives = {}

\* the declared type of the formal parameter an argument name stands for, or
\* none when there is no such parameter
NoParam == [kind |-> "none", params |-> <<>>, results |-> <<>>]
ParamOf(d, a) ==
    IF a.t = "__plyarg_" /\ a.n + 1 \in 1..Len(d.params) THEN d.params[a.n + 1] ELSE NoParam

\* The types of the variables in scope after the first j statements of the
\* body, as a set of [v, t] pairs: element and key variables by their name,
\* "acc" and the result variable by theirs.
VarType(scope, v) == IF \E b \in scope : b.v = v THEN (CHOOSE b \in scope : b.v = v).t ELSE ""

RECURSIVE Scope(_, _)
Scope(d, j) ==
    IF j = 0 THEN {}
    ELSE LET sc == Scope(d, j - 1)
             st == d.body[j]
             et == VarType(sc, st.e)
             kt == VarType(sc, st.k)
             pa == ParamOf(d, st.a)
             u == Underlying(d.recv)
         IN  CASE st.op \in {"for", "forfrom", "forreverse"} ->
                    sc \cup {[v |-> st.ne, t |-> u.elem]}
               [] st.op = "forkeys" -> sc \cup {[v |-> st.ne, t |-> u.key]}
               [] st.op = "formap" ->
                    sc \cup {[v |-> st.nk, t |-> u.key], [v |-> st.ne, t |-> u.elem]}
               [] st.op = "morph" ->
                    sc \cup {[v |-> st.ne,
                              t |-> IF Len(pa.results) = 1 THEN pa.results[1] ELSE ""]}
               [] st.op = "morphmap" ->
                    sc \cup {[v |-> st.nk,
                              t |-> IF Len(pa.results) = 2 THEN pa.results[1] ELSE ""],
                             [v |-> st.ne,
                              t |-> IF Len(pa.results) = 2 THEN pa.results[2] ELSE ""]}
               [] st.op = "acc:=" ->
                    \* acc takes the type of the parameter: a plain type, or none
                    \* that the later statements accept when it is a function
                    sc \cup {[v |-> Ident("acc"),
                              t |-> IF pa.kind = "plain" THEN pa.results[1] ELSE ""]}
               [] st.op = "varacc" -> sc \cup {[v |-> Ident("acc"), t |-> st.te]}
               [] st.op = "var" -> sc \cup {[v |-> Ident(st.v), t |-> st.te]}
               [] st.op = "make" ->
                    sc \cup {[v |-> Ident(st.v), t |-> st.te], [v |-> Ident("key"), t |-> st.tk]}
               [] OTHER -> sc

Declared(d, j) == {b.v : b \in Scope(d, j)}

\* statement j is well typed and uses only names in scope
StmtTypes(d, j) ==
    LET sc == Scope(d, j - 1)
        st == d.body[j]
        et == VarType(sc, st.e)
        kt == VarType(sc, st.k)
        pa == ParamOf(d, st.a)
        u == Underlying(d.recv)
        reads == {st.e, st.k} \ {NoV}
        isFunc(params, results) ==
            pa.kind = "func" /\ pa.params = params /\ pa.results = results
    IN  /\ reads \subseteq {b.v : b \in sc}
        /\ \A r \in reads : VarType(sc, r) # ""
        /\ st.a # NoA => pa.kind # "none"
        /\ CASE st.op \in {"for", "forreverse"} -> u.kind \in {"slice", "map"}
             [] st.op = "forfrom" -> u.kind = "slice" /\ pa = PlainT("int")
             [] st.op \in {"forkeys", "formap"} -> u.kind = "map"
             [] st.op \in {"clamp", "ndropped=arg", "ndropped:=0", "ntaken:=0",
                           "take", "drop"} -> pa = PlainT("int")
             [] st.op = "stilldropping:=true" -> TRUE
             [] st.op \in {"filter", "takeWhile", "dropWhile", "all", "any"} ->
                    isFunc(<<et>>, <<"bool">>)
             [] st.op = "call" -> pa.kind = "func" /\ pa.params = <<et>>
             [] st.op = "morph" -> pa.kind = "func" /\ pa.params = <<et>> /\ Len(pa.results) = 1
             [] st.op = "filtermap" -> isFunc(<<kt, et>>, <<"bool">>)
             [] st.op = "morphmap" ->
                    pa.kind = "func" /\ pa.params = <<kt, et>> /\ Len(pa.results) = 2
             [] st.op = "contains" -> pa = PlainT(et)
             [] st.op = "append" -> VarType(sc, Ident(st.v)) = et
             [] st.op = "setadd" -> VarType(sc, Ident("key")) = et
             [] st.op = "mapset" ->
                    VarType(sc, Ident("key")) = kt /\ VarType(sc, Ident(st.v)) = et
             [] st.op = "fold" ->
                    LET at == VarType(sc, Ident("acc"))
                    IN  at # "" /\ isFunc(<<at, et>>, <<at>>)
             [] st.op = "fold1" ->
                    LET at == VarType(sc, Ident("acc"))
                    IN  at = et /\ isFunc(<<at, at>>, <<at>>)
             [] st.op = "return" ->
                    IF st.v = "acc"
                    THEN d.ret = Basic(VarType(sc, Ident("acc"))) /\ VarType(sc, Ident("acc")) # ""
                    ELSE IF d.ret.kind = "map"
                         THEN d.ret = MapOf(VarType(sc, Ident("key")), VarType(sc, Ident(st.v)))
                         ELSE d.ret = SliceOf(VarType(sc, Ident(st.v)))
             [] st.op = "returnlit" -> d.ret = Basic("bool")
             [] st.op = "returnrecv" -> d.ret = u
             [] OTHER -> TRUE

\* every element and key variable the body declares is read by a later statement
AllUsed(d) ==
    \A j \in 1..Len(d.body) : \A v \in ({d.body[j].ne, d.body[j].nk} \ {NoV}) :
        \E h \in (j + 1)..Len(d.body) : v \in {d.body[h].e, d.body[h].k}

GoCompiles(d) ==
    /\ \A j \in 1..Len(d.body) : StmtParses(d.body[j])
    /\ \A j \in 1..Len(d.body) : StmtTypes(d, j)
    /\ AllUsed(d)

\* ---------------------------------------------- running a generated pipeline

\* Values: an int, a bool, the name of a function, a slice [isnil, s] or a map
\* [isnil, m] with m a function from its keys; struct{}{} is written 0.
SliceVal(isnil, s) == [isnil |-> isnil, s |-> s]
MapVal(isnil, m) == [isnil |-> isnil, m |-> m]
MapPut(m, k, x) == [y \in DOMAIN m \cup {k} |-> IF y = k THEN x ELSE m[y]]

LoopOps == {"for", "forfrom", "forreverse", "formap", "forkeys"}

\* the position of the for statement and of its closing brace in a body
LoopAt(body) == CHOOSE j \in 1..Len(body) : body[j].op \in LoopOps
LoopEnd(body) == CHOOSE j \in 1..Len(body) : body[j].op = "}"

\* The state of one call of the generated method: the receiver, the formal
\* parameters, the element and key variables (by number), the counters and
\* flags of the setup sections (by the number of the parameter in their name),
\* the result variable, acc and accset, the items the loop has yet to visit
\* (a list for a slice, a set for a map, whose order is not specified), what
\* the last statement did to the control flow, the calls made to the function
\* arguments so far, and the value returned.  Two histories are kept beside
\* them: the elements the for statement has bound (visited) and the elements
\* on which the last section, cons, has run (reached).
StartState(d, recv, args) ==
    [recv |-> recv,
     formals |-> [i \in 1..Len(args) |-> ArgValue(args[i])],
     ev |-> [i \in 1..(d.en + d.kn) |-> 0],
     kv |-> [i \in 1..(d.en + d.kn) |-> 0],
     loc |-> [i \in 1..Len(args) |-> 0],
     out |-> <<>>, outnil |-> TRUE,
     acc |-> 0, accset |-> FALSE,
     items |-> <<>>, itemset |-> {},
     ctl |-> "next",
     log |-> <<>>,
     visited |-> <<>>, reached |-> <<>>,
     ret |-> "none"]

Logged(r, f, xs) == Append(r.log, [f |-> f, x |-> xs])

\* one statement outside the loop body
ExecOuter(d, st, r) ==
    LET i == st.a.n + 1
        isMap == Underlying(d.recv).kind = "map"
        keys == IF isMap THEN DOMAIN r.recv.m ELSE {}
        n == IF isMap THEN 0 ELSE Len(r.recv.s)
    IN  CASE st.op = "var" -> [r EXCEPT !.out = <<>>, !.outnil = TRUE]
          [] st.op = "make" -> [r EXCEPT !.out = <<>>, !.outnil = FALSE]
          [] st.op = "acc:=" -> [r EXCEPT !.acc = r.formals[i]]
          [] st.op = "varacc" -> [r EXCEPT !.acc = 0, !.accset = FALSE]
          [] st.op \in {"ndropped:=0", "ntaken:=0"} -> [r EXCEPT !.loc[i] = 0]
          [] st.op = "stilldropping:=true" -> [r EXCEPT !.loc[i] = TRUE]
          [] st.op = "clamp" ->
                IF r.formals[i] > n THEN [r EXCEPT !.formals[i] = n] ELSE r
          [] st.op = "ndropped=arg" -> [r EXCEPT !.loc[i] = r.formals[i]]
          [] st.op = "for" ->
                IF isMap
                THEN [r EXCEPT !.itemset = {[k |-> k, e |-> r.recv.m[k]] : k \in keys}]
                ELSE [r EXCEPT !.items = [j \in 1..n |-> [k |-> j, e |-> r.recv.s[j]]]]
          [] st.op = "forfrom" ->
                [r EXCEPT !.items = [j \in 1..(n - r.formals[i]) |->
                                        [k |-> j, e |-> r.recv.s[j + r.formals[i]]]]]
          [] st.op = "forreverse" ->
                [r EXCEPT !.items = [j \in 1..n |-> [k |-> j, e |-> r.recv.s[n + 1 - j]]]]
          [] st.op = "formap" ->
                [r EXCEPT !.itemset = {[k |-> k, e |-> r.recv.m[k]] : k \in keys}]
          [] st.op = "forkeys" ->
                [r EXCEPT !.itemset = {[k |-> k, e |-> k] : k \in keys}]
          [] st.op = "checkaccset" ->
                IF r.accset THEN r ELSE [r EXCEPT !.ctl = "panic"]
          [] st.op = "reverseinplace" -> [r EXCEPT !.out = Reverse(r.out)]
          [] st.op = "return" ->
                [r EXCEPT !.ctl = "return",
                          !.ret = IF st.v = "acc" THEN r.acc
                                  ELSE IF d.ret.kind = "map" THEN MapVal(r.outnil, r.out)
                                  ELSE SliceVal(r.outnil, r.out)]
          [] st.op = "returnlit" -> [r EXCEPT !.ctl = "return", !.ret = (st.v = "true")]
          [] st.op = "returnrecv" -> [r EXCEPT !.ctl = "return", !.ret = r.recv]
          [] OTHER -> r

\* one statement of the loop body
ExecInner(d, st, r) ==
    LET i == st.a.n + 1
        f == r.formals[i]
        e == r.ev[st.e.n]
        k == r.kv[st.k.n]
    IN  CASE st.op = "drop" ->
                [r EXCEPT !.loc[i] = @ + 1,
                          !.ctl = IF r.loc[i] + 1 <= r.formals[i] THEN "continue" ELSE "next"]
          [] st.op = "take" ->
                [r EXCEPT !.loc[i] = @ + 1,
                          !.ctl = IF r.loc[i] + 1 > r.formals[i] THEN "break" ELSE "next"]
          [] st.op = "dropWhile" ->
                \* && does not call the predicate once the flag is false
                IF r.loc[i]
                THEN [r EXCEPT !.log = Logged(r, f, <<e>>),
                               !.loc[i] = Apply(f, <<e>>)[1],
                               !.ctl = IF Apply(f, <<e>>)[1] THEN "continue" ELSE "next"]
                ELSE r
          [] st.op = "filter" ->
                [r EXCEPT !.log = Logged(r, f, <<e>>),
                          !.ctl = IF Apply(f, <<e>>)[1] THEN "next" ELSE "continue"]
          [] st.op = "takeWhile" ->
                [r EXCEPT !.log = Logged(r, f, <<e>>),
                          !.ctl = IF Apply(f, <<e>>)[1] THEN "next" ELSE "break"]
          [] st.op = "call" -> [r EXCEPT !.log = Logged(r, f, <<e>>)]
          [] st.op = "morph" ->
                [r EXCEPT !.log = Logged(r, f, <<e>>), !.ev[st.ne.n] = Apply(f, <<e>>)[1]]
          [] st.op = "filtermap" ->
                [r EXCEPT !.log = Logged(r, f, <<k, e>>),
                          !.ctl = IF Apply(f, <<k, e>>)[1] THEN "next" ELSE "continue"]
          [] st.op = "morphmap" ->
                [r EXCEPT !.log = Logged(r, f, <<k, e>>),
                          !.kv[st.nk.n] = Apply(f, <<k, e>>)[1],
                          !.ev[st.ne.n] = Apply(f, <<k, e>>)[2]]
          [] st.op = "all" ->
                IF Apply(f, <<e>>)[1]
                THEN [r EXCEPT !.log = Logged(r, f, <<e>>)]
                ELSE [r EXCEPT !.log = Logged(r, f, <<e>>), !.ctl = "return", !.ret = FALSE]
          [] st.op = "any" ->
                IF Apply(f, <<e>>)[1]
                THEN [r EXCEPT !.log = Logged(r, f, <<e>>), !.ctl = "return", !.ret = TRUE]
                ELSE [r EXCEPT !.log = Logged(r, f, <<e>>)]
          [] st.op = "contains" ->
                IF e = r.formals[i] THEN [r EXCEPT !.ctl = "return", !.ret = TRUE] ELSE r
          [] st.op = "append" -> [r EXCEPT !.out = Append(r.out, e), !.outnil = FALSE]
          [] st.op = "setadd" -> [r EXCEPT !.out = MapPut(r.out, e, 0)]
          [] st.op = "mapset" -> [r EXCEPT !.out = MapPut(r.out, k, e)]
          [] st.op = "fold" ->
                [r EXCEPT !.log = Logged(r, f, <<r.acc, e>>),
                          !.acc = Apply(f, <<r.acc, e>>)[1]]
          [] st.op = "fold1" ->
                IF ~r.accset
                THEN [r EXCEPT !.acc = e, !.accset = TRUE]
                ELSE [r EXCEPT !.log = Logged(r, f, <<r.acc, e>>),
                               !.acc = Apply(f, <<r.acc, e>>)[1]]
          [] OTHER -> r

\* the statements from(j) on, up to the closing brace of the loop, a return,
\* a panic or the end of the body
RECURSIVE ExecOuterFrom(_, _, _)
ExecOuterFrom(d, j, r) ==
    IF j > Len(d.body) \/ r.ctl # "next" \/ d.body[j].op = "}" THEN r
    ELSE ExecOuterFrom(d, j + 1, ExecOuter(d, d.body[j], r))

\* the statements that are the cons section of a transformation
ConsOps == {"all", "any", "contains", "containsNil", "append", "fold", "fold1",
            "setadd", "mapset"}

\* the statements of the loop body from j on, until one of them continues,
\* breaks or returns
RECURSIVE ExecInnerFrom(_, _, _)
ExecInnerFrom(d, j, r) ==
    IF r.ctl # "next" \/ d.body[j].op = "}" THEN r
    ELSE ExecInnerFrom(d, j + 1,
            ExecInner(d, d.body[j],
                IF d.body[j].op \in ConsOps
                THEN [r EXCEPT !.reached = Append(@, r.ev[d.body[j].e.n])] ELSE r))

\* the method up to and including its for statement
EnterLoop(d, recv, args) == ExecOuterFrom(d, 1, StartState(d, recv, args))

\* one iteration of the loop, on item it
Iterate(d, r, it) ==
    LET head == d.body[LoopAt(d.body)]
        bound == [r EXCEPT !.ev[head.ne.n] = it.e,
                           !.visited = Append(@, it.e),
                           !.kv = IF head.nk = NoV THEN @ ELSE [@ EXCEPT ![head.nk.n] = it.k],
                           !.items = IF @ = <<>> THEN @ ELSE Tail(@),
                           !.itemset = @ \ {it}]
        after == ExecInnerFrom(d, LoopAt(d.body) + 1, bound)
    IN  CASE after.ctl = "break" -> [after EXCEPT !.ctl = "next", !.items = <<>>, !.itemset = {}]
          [] after.ctl = "continue" -> [after EXCEPT !.ctl = "next"]
          [] OTHER -> after

\* the statements after the loop
LeaveLoop(d, r) == ExecOuterFrom(d, LoopEnd(d.body) + 1, r)

\* ------------------------------------------------- the single-method templates

\* What a call of a generated single method yields: the value it returns, the
\* calls it makes to its function argument, and whether it panics.
Result(v, log) == [val |-> v, log |-> log, panic |-> FALSE]
Panic == [val |-> "none", log |-> <<>>, panic |-> TRUE]

\* the calls f(xs[1]), ..., f(xs[n])
CallsOn(f, xs, n) == [j \in 1..n |-> [f |-> f, x |-> <<xs[j]>>]]

\* the first position whose element pred maps to b, Len(xs) + 1 if there is none
FirstWith(pred, xs, b) ==
    IF \E j \in 1..Len(xs) : Apply(pred, <<xs[j]>>)[1] = b
    THEN CHOOSE j \in 1..Len(xs) :
            /\ Apply(pred, <<xs[j]>>)[1] = b
            /\ \A i \in 1..(j - 1) : Apply(pred, <<xs[i]>>)[1] # b
    ELSE Len(xs) + 1

\* append([]T(nil), s...)
AppendToNil(s) == SliceVal(s = <<>>, s)

allTempl(xs, pred) ==
    LET b == FirstWith(pred, xs.s, FALSE)
    IN  Result(b > Len(xs.s), CallsOn(pred, xs.s, Min(b, Len(xs.s))))

anyTempl(xs, pred) ==
    LET b == FirstWith(pred, xs.s, TRUE)
    IN  Result(b <= Len(xs.s), CallsOn(pred, xs.s, Min(b, Len(xs.s))))

containsSliceTempl(xs, e) == Result(\E j \in 1..Len(xs.s) : xs.s[j] = e, <<>>)

containsMapTempl(m, e) == Result(e \in DOMAIN m.m, <<>>)

\* i stays at the index of the last element the loop visited: the first one
\* that fails pred, or the last one of xs when none fails
dropWhileTempl(xs, pred) ==
    LET i == Min(FirstWith(pred, xs.s, FALSE), Len(xs.s))
    IN  Result(AppendToNil(Slice(xs.s, IF i = 0 THEN 1 ELSE i, Len(xs.s))), CallsOn(pred, xs.s, i))

takeWhileTempl(xs, pred) ==
    LET i == Min(FirstWith(pred, xs.s, FALSE), Len(xs.s))
    IN  Result(AppendToNil(Slice(xs.s, 1, i - 1)), CallsOn(pred, xs.s, i))

\* order is the order in which range visits the keys of m
elemsTempl(m, order) == Result(SliceVal(FALSE, [j \in 1..Len(order) |-> m.m[order[j]]]), <<>>)

keysTempl(m, order) == Result(SliceVal(FALSE, order), <<>>)

filterTempl(xs, pred) ==
    LET Keep(x) == Apply(pred, <<x>>)[1]
        kept == SelectSeq(xs.s, Keep)
    IN  Result(SliceVal(kept = <<>>, kept), CallsOn(pred, xs.s, Len(xs.s)))

filterMapTempl(m, pred, order) ==
    IF m.isnil THEN Result(MapVal(TRUE, <<>>), <<>>)
    ELSE LET kept == {k \in DOMAIN m.m : Apply(pred, <<k, m.m[k]>>)[1]}
         IN  Result(MapVal(FALSE, [k \in kept |-> m.m[k]]),
                    [j \in 1..Len(order) |-> [f |-> pred, x |-> <<order[j], m.m[order[j]]>>]])

\* acc = fn(acc, x) for each x of xs in turn
RECURSIVE FoldLeft(_, _, _)
FoldLeft(fn, acc, xs) ==
    IF xs = <<>> THEN Result(acc, <<>>)
    ELSE LET rest == FoldLeft(fn, Apply(fn, <<acc, Head(xs)>>)[1], Tail(xs))
         IN  Result(rest.val, <<[f |-> fn, x |-> <<acc, Head(xs)>>]>> \o rest.log)

foldTempl(xs, fn, acc) == FoldLeft(fn, acc, xs.s)

fold1Templ(xs, fn) ==
    IF Len(xs.s) = 0 THEN Panic ELSE FoldLeft(fn, Head(xs.s), Tail(xs.s))

foreachTempl(xs, fn) == Result("none", CallsOn(fn, xs.s, Len(xs.s)))

morphTempl(xs, fn) ==
    Result(SliceVal(FALSE, [j \in 1..Len(xs.s) |-> Apply(fn, <<xs.s[j]>>)[1]]),
           CallsOn(fn, xs.s, Len(xs.s)))

\* morphed[mk] = me for each key of m in turn
RECURSIVE MorphInto(_, _, _, _)
MorphInto(morphed, m, fn, order) ==
    IF order = <<>> THEN morphed
    ELSE LET r == Apply(fn, <<Head(order), m[Head(order)]>>)
         IN  MorphInto(MapPut(morphed, r[1], r[2]), m, fn, Tail(order))

morphMapTempl(m, fn, order) ==
    IF m.isnil THEN Result(MapVal(TRUE, <<>>), <<>>)
    ELSE Result(MapVal(FALSE, MorphInto(<<>>, m.m, fn, order)),
                [j \in 1..Len(order) |-> [f |-> fn, x |-> <<order[j], m.m[order[j]]>>]])

reverseTempl(xs) == Result(SliceVal(FALSE, Reverse(xs.s)), <<>>)

teeTempl(xs, fn) == Result(xs, CallsOn(fn, xs.s, Len(xs.s)))

toSetTempl(xs) == Result(MapVal(FALSE, [x \in Range(xs.s) |-> 0]), <<>>)

\* s[min(n, len(s)):] and s[:min(n, len(s))]
Drop(s, n) == Result(SliceVal(s.isnil, Slice(s.s, Min(n, Len(s.s)) + 1, Len(s.s))), <<>>)
Take(s, n) == Result(SliceVal(s.isnil, Slice(s.s, 1, Min(n, Len(s.s)))), <<>>)

\* maxTempl and minTempl
maxTempl(a, b) == Result(IF a > b THEN a ELSE b, <<>>)
minTempl(a, b) == Result(IF a < b THEN a ELSE b, <<>>)

\* The maps of a running program: h[n] is the n-th map variable, a nil map
\* when h[n].isnil.  A map value is 0 for nil or the number of the variable
\* whose map it is; two values with the same number are the same map.
RefOf(h, a) == IF a.ty = "nil" THEN 0 ELSE IF h[a.n].isnil THEN 0 ELSE a.n

\* for _, m := range rest { for k, v := range m { recv[k] = v } }
RECURSIVE MergeInto(_, _, _)
MergeInto(h, recv, rest) ==
    IF rest = <<>> THEN h
    ELSE LET from == IF Head(rest) = 0 THEN <<>> ELSE h[Head(rest)].m
         IN  MergeInto([h EXCEPT ![recv].m = from @@ @], recv, Tail(rest))

\* mergeTempl without the make: a nil recv takes the first map of rest
mergeTempl_ReuseRest(h, recv, rest) ==
    IF rest = <<>> THEN [ref |-> recv, h |-> h]
    ELSE IF recv = 0 /\ Head(rest) = 0
         THEN [ref |-> Len(h) + 1,
               h |-> MergeInto(Append(h, MapVal(FALSE, <<>>)), Len(h) + 1, rest)]
         ELSE IF recv = 0
              THEN [ref |-> Head(rest), h |-> MergeInto(h, Head(rest), Tail(rest))]
              ELSE [ref |-> recv, h |-> MergeInto(h, recv, rest)]

\* mergeTempl on the map values recv and rest: the map returned and the maps
\* of the program afterwards (a map made by make is a new one)
mergeTempl(h, recv, rest) ==
    IF rest = <<>> THEN [ref |-> recv, h |-> h]
    ELSE IF recv = 0
         THEN [ref |-> Len(h) + 1,
               h |-> MergeInto(Append(h, MapVal(FALSE, <<>>)), Len(h) + 1, rest)]
         ELSE [ref |-> recv, h |-> MergeInto(h, recv, rest)]

\* the functions that have a generator
funcGenerators == {"max", "merge", "min", "not", "zip"}

\* safeFnName, given the counter's value before the call
safeFnName(count, name) == GenName("__plyfn_", count + 1, name)

\* mergeGen finds an argument whose type is a map type (it dereferences a nil
\* *types.Map when there is none)
mergeGen(call) == \E i \in 1..Len(call.args) : call.args[i].ty = "map"

\* a call of a generated function on the values of its arguments
CallFunc(name, v, args, as) ==
    CASE name = "max" -> maxTempl(as[1], as[2])
      [] name = "min" -> minTempl(as[1], as[2])
      [] name = "merge" ->
            LET refs == [i \in 1..Len(args) |-> RefOf(v.h, args[i])]
                r == mergeTempl(v.h, Head(refs), Tail(refs))
            IN  Result([isnil |-> r.ref = 0,
                        m |-> IF r.ref = 0 THEN <<>> ELSE r.h[r.ref].m,
                        ref |-> r.ref, h |-> r.h], <<>>)

\* the methods that have a generator
methodGenerators ==
    {"all", "any", "contains", "dropWhile", "elems", "filter", "fold", "foreach",
     "keys", "morph", "reverse", "takeWhile", "tee", "toSet"}

\* safeTypeName, given the counter's value before the call
safeTypeName(count, name) == GenName("__plytype_", count + 1, name)

\* the name the generator of sel passes to genMethod
GenMethodName(sel, xt, nargs) ==
    CASE sel = "fold" /\ nargs = 1 -> "fold1_slice"
      [] Underlying(xt).kind = "map" -> MapMethodName(sel)
      [] OTHER -> SliceMethodName(sel)

\* a call of the method generated from the template of that name: recv is
\* the receiver's value, args the values of the call's arguments, order the
\* order in which range visits the keys of a map receiver
CallMethod(name, recv, args, order) ==
    CASE name = "all_slice" -> allTempl(recv, args[1])
      [] name = "any_slice" -> anyTempl(recv, args[1])
      [] name = "contains_slice" -> containsSliceTempl(recv, args[1])
      [] name = "contains_map" -> containsMapTempl(recv, args[1])
      [] name = "dropWhile_slice" -> dropWhileTempl(recv, args[1])
      [] name = "elems_map" -> elemsTempl(recv, order)
      [] name = "filter_slice" -> filterTempl(recv, args[1])
      [] name = "filter_map" -> filterMapTempl(recv, args[1], order)
      [] name = "fold_slice" -> foldTempl(recv, args[1], args[2])
      [] name = "fold1_slice" -> fold1Templ(recv, args[1])
      [] name = "foreach_slice" -> foreachTempl(recv, args[1])
      [] name = "keys_map" -> keysTempl(recv, order)
      [] name = "morph_slice" -> morphTempl(recv, args[1])
      [] name = "morph_map" -> morphMapTempl(recv, args[1], order)
      [] name = "reverse_slice" -> reverseTempl(recv)
      [] name = "takeWhile_slice" -> takeWhileTempl(recv, args[1])
      [] name = "tee_slice" -> teeTempl(recv, args[1])
      [] name = "toSet_slice" -> toSetTempl(recv)
      [] name = "drop_slice" -> Drop(recv, args[1])
      [] name = "take_slice" -> Take(recv, args[1])

\* -------------------------------------------------------------- the compiler

\* the values of the arguments of calls lo..hi of a chain, in order
ArgsOf(chain, lo, hi) == Flatten([i \in 1..(hi - lo + 1) |-> chain[lo + i - 1].args])

\* the declaration of that name in s.pkg.Files
FileNamed(fs, name) == CHOOSE f \in Range(fs) : f.name = name

\* parser.ParseFile on a generated body
Parses(body) == \A j \in 1..Len(body) : StmtParses(body[j])

\* specializer.addDecl, once the code has parsed: a name already present is
\* not added again
addDecl(fs, decl) ==
    IF \E f \in Range(fs) : f.name = decl.name THEN fs ELSE Append(fs, decl)

NoName == GenName("", 0, "")

\* the run state when no pipeline method is running
Idle ==
    [recv |-> SliceVal(TRUE, <<>>), formals |-> <<>>, ev |-> <<>>, kv |-> <<>>,
     loc |-> <<>>, out |-> <<>>, outnil |-> TRUE, acc |-> 0, accset |-> FALSE,
     items |-> <<>>, itemset |-> {}, ctl |-> "idle", log |-> <<>>,
     visited |-> <<>>, reached |-> <<>>, ret |-> "none"]

\* whether Rewrite generates a single method for the call
Single(call, xt) == call.sel \in methodGenerators /\ ~hasMethod(xt, call.sel)

\* whether the call is a call of a ply function (n.Fun is an *ast.Ident with
\* a generator), and whether the type checker found it to be a constant
IsFuncCall(call, xt) == xt.kind = "pkg" /\ call.sel \in funcGenerators
IsConstCall(call, xt) == IsFuncCall(call, xt) /\ ply(call).constant

\* the part of the chain that Rewrite has dealt with at a call node: calls
\* lo..hi, by a pipeline, by a single method, or left as they were
SegOf(call, xt, top, p, g) ==
    CASE p.ok -> [lo |-> g.x + 1, hi |-> top, kind |-> "pipeline", name |-> g.name,
                  args |-> g.args, conv |-> ""]
      [] IsConstCall(call, xt) ->
            [lo |-> top, hi |-> top, kind |-> "const", name |-> NoName,
             args |-> call.args, conv |-> ""]
      [] IsFuncCall(call, xt) ->
            [lo |-> top, hi |-> top, kind |-> "func",
             name |-> safeFnName(counts.fn, call.sel), args |-> call.args, conv |-> ""]
      [] Single(call, xt) ->
            [lo |-> top, hi |-> top, kind |-> "single",
             name |-> safeTypeName(counts.type, GenMethodName(call.sel, xt, Len(call.args))),
             args |-> call.args, conv |-> ""]
      [] OTHER -> [lo |-> top, hi |-> top, kind |-> "plain", name |-> NoName,
                   args |-> call.args, conv |-> ""]

\* a conversion put around every call whose type is a named type
NamedConv_Always(seg, nt) == [seg EXCEPT !.conv = nt.name]

\* the end of Rewrite: a call that was rewritten and whose type nt is a named
\* type is put into a conversion to that type
NamedConv(seg, nt) ==
    [seg EXCEPT !.conv = IF nt.name # "" /\ seg.kind \in {"pipeline", "single", "func"}
                         THEN nt.name ELSE ""]

\* the declaration that Rewrite hands to addDecl
DeclOf(call, xt, p, g, seg) ==
    IF p.ok
    THEN [name |-> g.name, method |-> "pipeline", names |-> p.names, recv |-> g.recv,
          params |-> g.params, ret |-> g.ret, body |-> g.body, en |-> g.en, kn |-> g.kn]
    ELSE IF IsFuncCall(call, xt)
    THEN [name |-> seg.name, method |-> call.sel, names |-> <<>>, recv |-> NoRecv,
          params |-> <<>>, ret |-> Underlying(ply(call).type), body |-> <<>>,
          en |-> 1, kn |-> 1]
    ELSE [name |-> seg.name, method |-> GenMethodName(call.sel, xt, Len(call.args)),
          names |-> <<>>, recv |-> Underlying(xt), params |-> <<>>, ret |-> Underlying(CallType(xt, call)),
          body |-> <<>>, en |-> 1, kn |-> 1]

Rewrote(call, xt, p, seg, decl) ==
    /\ counts' = CASE p.ok -> [counts EXCEPT !.pipe = @ + 1]
                   [] IsConstCall(call, xt) -> counts
                   [] IsFuncCall(call, xt) ->
                        IF call.sel = "merge" /\ ~mergeGen(call) THEN counts
                        ELSE [counts EXCEPT !.fn = @ + 1]
                   [] Single(call, xt) -> [counts EXCEPT !.type = @ + 1]
                   [] OTHER -> counts
    /\ IF \/ p.ok /\ ~Parses(decl.body)
          \/ seg.kind = "func" /\ call.sel = "merge" /\ ~mergeGen(call)
       THEN \* addDecl: log.Fatal(err); mergeGen: nil pointer dereference
            /\ pc' = "fatal"
            /\ UNCHANGED <<files, segs, site, upto>>
       ELSE /\ pc' = pc
            /\ files' = IF seg.kind \in {"plain", "const"} THEN files ELSE addDecl(files, decl)
            /\ segs' = [segs EXCEPT ![site] = <<seg>> \o @]
            /\ site' = IF seg.lo = 1 THEN site + 1 ELSE site
            /\ upto' = CASE seg.lo # 1 -> seg.lo - 1
                         [] seg.lo = 1 /\ site < Len(sites) -> Len(sites[site + 1].chain)
                         [] OTHER -> 0

RewriteSeg(call, xt, p, g, seg) == Rewrote(call, xt, p, seg, DeclOf(call, xt, p, g, seg))

RewriteGen(call, xt, nt, top, p, g) ==
    RewriteSeg(call, xt, p, g, NamedConv(SegOf(call, xt, top, p, g), nt))

\* a specify that leaves s.params on the array of t.params: what it writes
\* into the parameters reaches the table
MasterAfterSpecify_SharedParams(t, call, nargs, xt) ==
    [t EXCEPT !.params = specify(t, call, nargs, xt).params]

\* The entry of the table that t was read from, after specify(call, nargs)
\* has run on t: s is a copy of the struct and s.params a new array, so what
\* specify writes through templs stays in s.
MasterAfterSpecify(t, call, nargs, xt) == t

\* the table after buildPipeline has specified the transformations i.. of
\* the pipeline p
RECURSIVE StoreMasters(_, _, _, _, _)
StoreMasters(reg, s, p, nargs, i) ==
    IF i > Len(p.fns) THEN reg
    ELSE LET call == s.chain[p.fns[i]]
             master == MasterAfterSpecify(TableEntry(reg, p.names[i]), call, nargs,
                                          ExprType(s.recv, s.chain, p.fns[i] - 1))
         IN  StoreMasters([reg EXCEPT ![p.names[i]] = master.params], s, p,
                          nargs + Len(call.args), i + 1)

RewritePipeline(s, top, p) ==
    /\ RewriteGen(s.chain[top], ExprType(s.recv, s.chain, top - 1),
                  ExprType(s.recv, s.chain, top), top, p, gen(p, s.chain, counts.pipe))
    /\ registry' = IF p.ok THEN StoreMasters(registry, s, p, 0, 1) ELSE registry

\* specializer.Rewrite on the call node that ends at call upto of the site:
\* a pipeline if buildPipeline returns one, else a single method if the
\* method has a generator and the receiver's type does not declare it, else
\* nothing.  The walk then goes on into the receiver expression that is left.
Rewrite ==
    /\ pc = "walk"
    /\ site <= Len(sites)
    /\ RewritePipeline(sites[site], upto,
                       buildPipeline(sites[site].recv, sites[site].chain, upto))
    /\ UNCHANGED <<sites, input, rt, val, calls>>

\* a call the walk left as it was is a call of a method Go must find
PlainCompiles(s, seg) ==
    seg.kind = "plain" =>
        /\ s.recv.kind # "pkg"
        /\ s.chain[seg.lo].sel \in UserMethods(ExprType(s.recv, s.chain, seg.lo - 1))

\* The Go compiler on the rewritten files and the generated declarations.
Build ==
    /\ pc = "walk"
    /\ site > Len(sites)
    /\ pc' = IF /\ \A f \in Range(files) : f.method = "pipeline" => GoCompiles(f)
                /\ \A i \in 1..Len(sites) : \A seg \in Range(segs[i]) :
                        PlainCompiles(sites[i], seg)
             THEN "run" ELSE "builderror"
    /\ site' = 1
    /\ upto' = 1
    /\ val' = input
    /\ calls' = <<>>
    /\ UNCHANGED <<sites, input, files, counts, segs, rt, registry>>

\* ------------------------------------------------------- the compiled program

\* func (ints) filter(func(int) bool) ints { return ints{7} }
UserFilter(recv, pred) == Result(UserFilterResult, <<>>)

\* the orders in which range may visit the keys of a map (one, empty, for a slice)
KeyOrders(xt, v) ==
    IF Underlying(xt).kind = "map"
    THEN {o \in [1..Cardinality(DOMAIN v.m) -> DOMAIN v.m] : Range(o) = DOMAIN v.m}
    ELSE {<<>>}

\* the segment of the site that runs next, and the declaration it calls
Seg == segs[site][upto]
SegArgs == Seg.args

\* A call the walk rewrote to a single generated method, or left to the
\* method the receiver's type declares.
RunSingle ==
    /\ pc = "run"
    /\ upto <= Len(segs[site])
    /\ Seg.kind # "pipeline"
    /\ \E order \in KeyOrders(ExprType(sites[site].recv, sites[site].chain, Seg.lo - 1), val) :
        LET args == [i \in 1..Len(SegArgs) |-> ArgValue(SegArgs[i])]
            res == CASE Seg.kind = "plain" -> UserFilter(val, args[1])
                     [] Seg.kind = "const" ->
                          \* the constant the type checker computed
                          CallFunc(sites[site].chain[Seg.lo].sel, val, SegArgs, args)
                     [] Seg.kind = "func" ->
                          CallFunc(FileNamed(files, Seg.name).method, val, SegArgs, args)
                     [] OTHER ->
                          CallMethod(FileNamed(files, Seg.name).method, val, args, order)
        IN  IF res.panic
            THEN pc' = "panic" /\ UNCHANGED <<upto, val, calls>>
            ELSE /\ pc' = pc
                 /\ upto' = upto + 1
                 /\ val' = res.val
                 /\ calls' = calls \o res.log
    /\ UNCHANGED <<sites, input, site, files, counts, segs, rt, registry>>

\* A call of a generated pipeline method, up to its for statement.
RunStart ==
    /\ pc = "run"
    /\ upto <= Len(segs[site])
    /\ Seg.kind = "pipeline"
    /\ rt' = EnterLoop(FileNamed(files, Seg.name), val, SegArgs)
    /\ pc' = "looping"
    /\ UNCHANGED <<sites, input, site, upto, files, counts, segs, val, calls, registry>>

\* One iteration of the loop of the pipeline method; a return statement in
\* the loop body ends the call.
RunIter ==
    /\ pc = "looping"
    /\ \E it \in (IF rt.items # <<>> THEN {Head(rt.items)} ELSE rt.itemset) :
        LET r == Iterate(FileNamed(files, Seg.name), rt, it)
        IN  IF r.ctl = "return"
            THEN /\ pc' = "run"
                 /\ upto' = upto + 1
                 /\ val' = r.ret
                 /\ calls' = calls \o r.log
                 /\ rt' = r
            ELSE /\ rt' = r
                 /\ UNCHANGED <<pc, upto, val, calls>>
    /\ UNCHANGED <<sites, input, site, files, counts, segs, registry>>

\* The statements after the loop of the pipeline method.
RunEnd ==
    /\ pc = "looping"
    /\ rt.items = <<>>
    /\ rt.itemset = {}
    /\ LET r == LeaveLoop(FileNamed(files, Seg.name), rt)
       IN  IF r.ctl = "panic"
           THEN pc' = "panic" /\ rt' = r /\ UNCHANGED <<upto, val, calls>>
           ELSE /\ pc' = "run"
                /\ upto' = upto + 1
                /\ val' = r.ret
                /\ calls' = calls \o r.log
                /\ rt' = r
    /\ UNCHANGED <<sites, input, site, files, counts, segs, registry>>

\* The chain of the site has returned: the next site runs, or the program ends.
NextSite ==
    /\ pc = "run"
    /\ upto > Len(segs[site])
    /\ IF site < Len(sites)
       THEN /\ site' = site + 1
            /\ upto' = 1
            /\ val' = input
            /\ calls' = <<>>
            /\ pc' = pc
       ELSE /\ pc' = "done"
            /\ UNCHANGED <<site, upto, val, calls>>
    /\ UNCHANGED <<sites, input, files, counts, segs, rt, registry>>

Next == Rewrite \/ Build \/ RunSingle \/ RunStart \/ RunIter \/ RunEnd \/ NextSite

\* ------------------------------------------------------------- the programs

\* the calls on a []int
SliceCalls ==
    {Call("all", <<Fn("even")>>), Call("any", <<Fn("even")>>),
     Call("contains", <<IntLit(2)>>), Call("drop", <<IntLit(1)>>),
     Call("dropWhile", <<Fn("even")>>), Call("filter", <<Fn("even")>>),
     Call("fold", <<Fn("add")>>), Call("fold", <<Fn("add"), IntLit(1)>>),
     Call("foreach", <<Fn("side")>>), Call("morph", <<Fn("double")>>),
     Call("reverse", <<>>), Call("take", <<IntLit(1)>>),
     Call("takeWhile", <<Fn("even")>>), Call("tee", <<Fn("side")>>),
     Call("toSet", <<>>)}

\* the calls on a map[int]int
MapCalls ==
    {Call("filter", <<Fn("meven")>>), Call("morph", <<Fn("mdouble")>>),
     Call("morph", <<Fn("mone")>>), Call("keys", <<>>), Call("elems", <<>>)}

\* the calls of the programs that are compiled with two call sites
WalkCalls ==
    {Call("filter", <<Fn("even")>>), Call("morph", <<Fn("double")>>),
     Call("reverse", <<>>), Call("drop", <<IntLit(1)>>),
     Call("takeWhile", <<Fn("even")>>), Call("fold", <<Fn("add")>>)}

\* the chains of at most n calls that the type checker accepts on a receiver type
Chains(t, alphabet, n) == {c \in SeqsUpTo(alphabet, n) : c # <<>> /\ WellTyped(t, c)}

SliceInputs ==
    {SliceVal(TRUE, <<>>)} \cup {SliceVal(FALSE, s) : s \in SeqsUpTo(1..MaxElem, MaxLen)}

MapInputs ==
    {MapVal(TRUE, <<>>)} \cup
    UNION {{MapVal(FALSE, m) : m \in [D -> 1..MaxElem]} : D \in SUBSET (1..MaxElem)}

Inputs(t) == IF t.kind = "map" THEN MapInputs ELSE SliceInputs

Site(t, chain) == [recv |-> t, chain |-> chain]

\* the chains of the README and of TestPipeline that the claims name
Examples ==
    {[ss |-> <<Site(SliceOf("int"), <<Call("filter", <<Fn("gt3")>>), Call("morph", <<Fn("even")>>),
                                      Call("fold", <<Fn("and"), BoolLit(TRUE)>>)>>)>>,
      v |-> SliceVal(FALSE, <<1, 2, 3, 4, 6, 20>>)],
     [ss |-> <<Site(SliceOf("int"), <<Call("filter", <<Fn("gt3")>>), Call("reverse", <<>>)>>)>>,
      v |-> SliceVal(FALSE, <<1, 2, 3, 4, 6, 20>>)],
     [ss |-> <<Site(SliceOf("int"), <<Call("morph", <<Fn("double")>>), Call("take", <<IntLit(3)>>)>>)>>,
      v |-> SliceVal(FALSE, <<1, 2, 3, 4, 6, 20>>)],
     [ss |-> <<Site(SliceOf("int"), <<Call("tee", <<Fn("side")>>), Call("all", <<Fn("lt3")>>)>>)>>,
      v |-> SliceVal(FALSE, <<1, 2, 3, 4, 5>>)],
     [ss |-> <<Site(SliceOf("int"), <<Call("tee", <<Fn("side")>>), Call("any", <<Fn("gt3")>>)>>)>>,
      v |-> SliceVal(FALSE, <<1, 2, 3, 4, 5>>)],
     [ss |-> <<Site(Ints, <<Call("drop", <<IntLit(3)>>), Call("reverse", <<>>)>>)>>,
      v |-> SliceVal(FALSE, <<1, 2, 3, 4, 5>>)],
     [ss |-> <<Site(Ints, <<Call("filter", <<Fn("even")>>), Call("morph", <<Fn("double")>>)>>)>>,
      v |-> SliceVal(FALSE, <<1, 2, 3>>)],
     [ss |-> <<Site(SliceOf("int"), <<Call("morph", <<Fn("double")>>), Call("toSet", <<>>),
                                      Call("morph", <<Fn("setpair")>>)>>)>>,
      v |-> SliceVal(FALSE, <<1, 2, 3>>)],
     [ss |-> <<Site(SliceOf("int"), <<Call("toSet", <<>>), Call("filter", <<Fn("setpred")>>)>>)>>,
      v |-> SliceVal(FALSE, <<1, 2, 3>>)]}

\* the state after construction: nothing generated, the walk at the outermost
\* call of the first call site
InitOf(ss, v) ==
    /\ sites = ss
    /\ input = v
    /\ pc = "walk"
    /\ site = 1
    /\ upto = Len(ss[1].chain)
    /\ files = <<>>
    /\ counts = [pipe |-> 0, type |-> 0, fn |-> 0]
    /\ segs = [i \in 1..Len(ss) |-> <<>>]
    /\ rt = Idle
    /\ val = v
    /\ calls = <<>>
    /\ registry = TableParams

\* one call site, every chain and every receiver value within the bounds
Init ==
    \/ \E t \in {SliceOf("int"), MapOf("int", "int")} :
         \E c \in Chains(t, SliceCalls \cup MapCalls, MaxChain) :
           \E v \in Inputs(t) : InitOf(<<Site(t, c)>>, v)
    \/ \E x \in Examples : InitOf(x.ss, x.v)

Spec == Init /\ [][Next]_vars

\* one call site or two with the same chain, on a []int or on the named type
\* ints, and one receiver value
WalkInput == SliceVal(FALSE, <<1, 2, 3>>)

InitWalk ==
    \E t \in {SliceOf("int"), Ints} :
      \E c \in Chains(t, WalkCalls, MaxWalkChain) :
        \E n \in {1, 2} : InitOf([i \in 1..n |-> Site(t, c)], WalkInput)

SpecWalk == InitWalk /\ [][Next]_vars

\* the calls of the programs of TestTakeDrop: drop(n) and take(n) for every
\* count within the bound, and a filter
TakeDropCalls ==
    {Call("drop", <<IntLit(n)>>) : n \in 0..MaxCount} \cup
    {Call("take", <<IntLit(n)>>) : n \in 0..MaxCount} \cup
    {Call("filter", <<Fn("even")>>)}

\* the receivers nil, {}, {1}, {1,2}, ...
TakeDropInputs ==
    {SliceVal(TRUE, <<>>)} \cup
    {SliceVal(FALSE, [j \in 1..k |-> j]) : k \in 0..MaxTakeDropLen}

\* ys := xs.drop(1).take(12).drop(2).take(1) and
\* zs := xs.take(12).drop(2).take(2).drop(1) of TestTakeDrop
TakeDropExamples ==
    {<<Call("drop", <<IntLit(1)>>), Call("take", <<IntLit(12)>>),
       Call("drop", <<IntLit(2)>>), Call("take", <<IntLit(1)>>)>>,
     <<Call("take", <<IntLit(12)>>), Call("drop", <<IntLit(2)>>),
       Call("take", <<IntLit(2)>>), Call("drop", <<IntLit(1)>>)>>}

InitTakeDrop ==
    \/ \E c \in Chains(SliceOf("int"), TakeDropCalls, MaxTakeDropChain) :
         \E v \in TakeDropInputs : InitOf(<<Site(SliceOf("int"), c)>>, v)
    \/ \E c \in TakeDropExamples :
         InitOf(<<Site(SliceOf("int"), c)>>, SliceVal(FALSE, <<1, 2, 3, 4, 5>>))

SpecTakeDrop == InitTakeDrop /\ [][Next]_vars

\* the arguments of the calls of max and min: untyped constants, variables
\* of type int and myint, constants of type myint
NumberArgs ==
    UNION {{IntLit(n), Var("int", n), Var("myint", n), Const("myint", n)} : n \in 1..MaxElem}

\* the arguments of the calls of merge: nil and two map variables
MapArgs == {NilLit, MapRef(1), MapRef(2)}

\* the calls of ply functions that the type checker accepts
FuncCalls ==
    {c \in {Call(f, <<x, y>>) : f \in {"max", "min"}, x \in NumberArgs, y \in NumberArgs}
            \cup {Call("merge", <<x, y>>) : x \in MapArgs, y \in MapArgs}
            \cup {Call("merge", <<x, y, z>>) : x \in MapArgs, y \in MapArgs, z \in MapArgs} :
        WellTyped(NoRecv, <<c>>)}

\* the maps that the two map variables of a program hold
Heaps == {[isnil |-> FALSE, h |-> <<a, b>>] : a \in MapInputs, b \in MapInputs}

\* one call site: a call of max, min or merge, or a chain of methods on a
\* []int or on the named type ints
InitFunc ==
    \/ \E c \in FuncCalls :
         \E v \in (IF c.sel = "merge" THEN Heaps ELSE {[isnil |-> FALSE, h |-> <<>>]}) :
           InitOf(<<Site(NoRecv, <<c>>)>>, v)
    \/ \E t \in {SliceOf("int"), Ints} :
         \E c \in Chains(t, WalkCalls, MaxWalkChain) : InitOf(<<Site(t, c)>>, WalkInput)

SpecFunc == InitFunc /\ [][Next]_vars

\* ------------------------------------------------------------- properties

\* the whole chain of call site i was rewritten to one pipeline method
Fused(i) ==
    /\ Len(segs[i]) = 1
    /\ segs[i][1].kind = "pipeline"
    /\ segs[i][1].lo = 1
    /\ segs[i][1].hi = Len(sites[i].chain)

\* the pipeline method that call site i calls
PipelineOf(i) == FileNamed(files, segs[i][1].name)

\* the calls made to function f, in order
CallsTo(f) == SelectSeq(calls, LAMBDA c : c.f = f)

\* The values that applying the single-operation implementations of calls
\* 1..i of a chain one after the other can return on receiver v (more than
\* one when a map is ranged over), and whether doing so can panic.
RECURSIVE Unfused(_, _, _, _)
Unfused(t, chain, i, v) ==
    IF i = 0 THEN [vals |-> {v}, panics |-> FALSE]
    ELSE LET before == Unfused(t, chain, i - 1, v)
             xt == ExprType(t, chain, i - 1)
             call == chain[i]
             args == [j \in 1..Len(call.args) |-> ArgValue(call.args[j])]
             R(x, o) == IF call.sel \in UserMethods(xt) THEN UserFilter(x, args)
                        ELSE CallMethod(GenMethodName(call.sel, xt, Len(call.args)), x, args, o)
             runs == UNION {{<<x, o>> : o \in KeyOrders(xt, x)} : x \in before.vals}
         IN  [vals |-> UNION {IF R(q[1], q[2]).panic THEN {} ELSE {R(q[1], q[2]).val} : q \in runs},
              panics |-> before.panics \/ \E q \in runs : R(q[1], q[2]).panic]

\* C1: whenever a whole chain of two or more operations is fused into one
\* pipeline method, the program builds, and what the method returns on any
\* receiver (empty and nil ones included) is what applying the single-operation
\* implementations one after the other returns; it panics only if they do.
C1_FusedEqualsUnfused ==
    (Len(sites) = 1 /\ pc # "walk" /\ pc # "fatal" /\ Fused(1)) =>
        /\ pc # "builderror"
        /\ pc = "done" =>
              val \in Unfused(sites[1].recv, sites[1].chain, Len(sites[1].chain), input).vals
        /\ pc = "panic" =>
              Unfused(sites[1].recv, sites[1].chain, Len(sites[1].chain), input).panics

\* whether call j of call site i is a call of a method that the static type
\* of its receiver declares itself
UserCall(i, j) ==
    sites[i].chain[j].sel \in UserMethods(ExprType(sites[i].recv, sites[i].chain, j - 1))

\* C2: a call whose receiver's static type declares a method of that name is
\* never part of a pipeline and is never replaced by generated code, whether it
\* stands alone or further operations are chained after it: the walk leaves it
\* as it was, so that the user's method is the one called.
C2_UserMethodHonoured ==
    \A i \in 1..Len(sites) : \A k \in 1..Len(segs[i]) :
        \A j \in segs[i][k].lo..segs[i][k].hi :
            UserCall(i, j) => segs[i][k].kind = "plain"

\* the calls that were rewritten, as <<site, segment>>
RewrittenSegs ==
    UNION {{<<i, k>> : k \in {h \in 1..Len(segs[i]) : segs[i][h].kind # "plain"}} :
             i \in 1..Len(sites)}

\* C3 (as stated): when two call sites use the same chain with the same types,
\* the compilation adds one generated declaration per rewritten call of that
\* chain, not two, and both call sites reference the same declarations.
C3_OneDeclarationForSameChain ==
    (Len(sites) = 2 /\ sites[1] = sites[2] /\ pc \notin {"walk", "fatal"}) =>
        /\ \A k \in 1..Len(segs[1]) : segs[1][k].name = segs[2][k].name
        /\ Len(files) = Cardinality({k \in 1..Len(segs[1]) : segs[1][k].kind # "plain"})

\* C3 (amended): every rewritten call, also one of two call sites with the
\* same chain and types, has a generated declaration of its own: the
\* declaration it references is in the auxiliary unit, no two rewritten calls
\* reference the same name, no name is declared twice, and there are as many
\* declarations as rewritten calls.
C3_OneDeclarationPerCallSite ==
    /\ \A q \in RewrittenSegs : \E f \in Range(files) : f.name = segs[q[1]][q[2]].name
    /\ \A q1, q2 \in RewrittenSegs :
          q1 # q2 => segs[q1[1]][q1[2]].name # segs[q2[1]][q2[2]].name
    /\ \A a, b \in 1..Len(files) : a # b => files[a].name # files[b].name
    /\ Len(files) = Cardinality(RewrittenSegs)

\* two call sites with the same chain have been compiled to two pipelines
C3_TwoSitesCompiled ==
    /\ Len(sites) = 2
    /\ sites[1] = sites[2]
    /\ pc = "done"
    /\ Fused(1)
    /\ Fused(2)
    /\ Len(files) = 2

\* C4: a pipeline holds at most one reverse, at its first or at its last
\* position; a reverse that stands strictly between two calls of a chain is
\* never inside a pipeline: the calls before it are not part of the pipeline
\* that holds it and stay in the receiver expression.
C4_ReverseFirstOrLast ==
    /\ \A f \in Range(files) : f.method = "pipeline" =>
          /\ Cardinality({j \in 1..Len(f.names) : f.names[j] = "reverse_slice"}) <= 1
          /\ \A j \in 1..Len(f.names) :
                f.names[j] = "reverse_slice" => (j = 1 \/ j = Len(f.names))
    /\ \A i \in 1..Len(sites) : \A k \in 1..Len(segs[i]) :
          segs[i][k].kind = "pipeline" =>
              \A j \in (segs[i][k].lo + 1)..(segs[i][k].hi - 1) :
                  sites[i].chain[j].sel # "reverse"

\* a chain with a reverse in the middle was split: a pipeline starts at the
\* reverse and the calls before the reverse were left in its receiver
C4_SplitAtReverse ==
    \E i \in 1..Len(sites) : \E k \in 1..Len(segs[i]) :
        /\ segs[i][k].kind = "pipeline"
        /\ segs[i][k].lo > 1
        /\ segs[i][k].hi = Len(sites[i].chain)
        /\ sites[i].chain[segs[i][k].lo].sel = "reverse"
        /\ FileNamed(files, segs[i][k].name).names[1] = "reverse_slice"

\* the chain of the only call site
Chain == sites[1].chain

\* the calls f(xs[1]), p(xs[1]), f(xs[2]), p(xs[2]), ..., f(xs[n]), p(xs[n])
Alternating(f, p, xs, n) ==
    [j \in 1..(2 * n) |-> IF j % 2 = 1 THEN [f |-> f, x |-> <<xs[(j + 1) \div 2]>>]
                          ELSE [f |-> p, x |-> <<xs[j \div 2]>>]]

\* C5: in the fused chain tee(f).all(p) or tee(f).any(p), f is called once
\* for each element that all/any examines, right before p is called on it, in
\* order, up to and including the element that decides the result (the first
\* that fails p for all, the first that satisfies p for any), and for no later
\* element; over {1,2,3,4,5} with p = (<3), f is called 3 times and all
\* returns false.
C5_TeeBeforeAllAny ==
    (/\ Len(sites) = 1
     /\ pc = "done"
     /\ Fused(1)
     /\ Len(Chain) = 2
     /\ Chain[1].sel = "tee"
     /\ Chain[2].sel \in {"all", "any"}) =>
        LET f == Chain[1].args[1].f
            p == Chain[2].args[1].f
            decides == FirstWith(p, input.s, Chain[2].sel = "any")
            n == Min(decides, Len(input.s))
        IN  /\ calls = Alternating(f, p, input.s, n)
            /\ CallsTo(f) = CallsOn(f, input.s, n)
            /\ val = IF Chain[2].sel = "all" THEN decides > Len(input.s)
                     ELSE decides <= Len(input.s)
            /\ (input.s = <<1, 2, 3, 4, 5>> /\ p = "lt3" /\ Chain[2].sel = "all") =>
                  (Len(CallsTo(f)) = 3 /\ val = FALSE)

\* tee(side).all(lt3) over {1,2,3,4,5} has returned false after 3 side effects
C5_TeeAllExample ==
    /\ Len(sites) = 1
    /\ pc = "done"
    /\ Fused(1)
    /\ Chain = <<Call("tee", <<Fn("side")>>), Call("all", <<Fn("lt3")>>)>>
    /\ input.s = <<1, 2, 3, 4, 5>>
    /\ CallsTo("side") = CallsOn("side", input.s, 3)
    /\ val = FALSE

\* the last call of the chain of the only call site
LastCall == Chain[Len(Chain)]

\* C6: a fused chain that ends in fold(fn, seed) builds, initialises the
\* accumulator from the call's second argument and folds with its first, and
\* returns the left fold, from the seed, of the elements that reach the fold;
\* {1,2,3,4,6,20}.filter(>3).morph(isEven).fold(and, true) returns true.
C6_FoldFromSeed ==
    (/\ Len(sites) = 1
     /\ pc \notin {"walk", "fatal"}
     /\ Fused(1)
     /\ LastCall.sel = "fold"
     /\ Len(LastCall.args) = 2) =>
        LET d == PipelineOf(1)
            n == Len(d.params)
        IN  /\ pc # "builderror"
            /\ \A j \in 1..Len(d.body) :
                  /\ d.body[j].op = "acc:=" => d.body[j].a = PlyArg(n - 1)
                  /\ d.body[j].op = "fold" => d.body[j].a = PlyArg(n - 2)
            /\ pc = "done" =>
                  val = FoldLeft(LastCall.args[1].f, ArgValue(LastCall.args[2]), rt.reached).val
            /\ (pc = "done" /\ LastCall.args[1].f = "and"
                            /\ input.s = <<1, 2, 3, 4, 6, 20>>) => val = TRUE

\* C7: a fused chain that ends in fold(fn) is assembled from the
\* fold-from-first-element template; it returns the left fold that starts from
\* the first element reaching the fold and applies fn once to each later one
\* in order, and it panics exactly when no element reaches the fold (after
\* filter(p): when no element of the receiver satisfies p).
C7_FoldFromFirst ==
    (/\ Len(sites) = 1
     /\ pc \notin {"walk", "fatal"}
     /\ Fused(1)
     /\ LastCall.sel = "fold"
     /\ Len(LastCall.args) = 1) =>
        LET d == PipelineOf(1)
            fn == LastCall.args[1].f
        IN  /\ d.names[Len(d.names)] = "fold1_slice"
            /\ pc = "done" =>
                  /\ rt.reached # <<>>
                  /\ val = FoldLeft(fn, Head(rt.reached), Tail(rt.reached)).val
                  /\ CallsTo(fn) = FoldLeft(fn, Head(rt.reached), Tail(rt.reached)).log
            /\ pc = "panic" => rt.reached = <<>>
            /\ (pc \in {"done", "panic"} /\ Len(Chain) = 2 /\ Chain[1].sel = "filter") =>
                  rt.reached = SelectSeq(input.s, LAMBDA x : Apply(Chain[1].args[1].f, <<x>>)[1])

\* filter(p).fold(fn) has panicked on a receiver none of whose elements satisfies p
C7_FoldOfNothingPanics ==
    /\ Len(sites) = 1
    /\ pc = "panic"
    /\ Fused(1)
    /\ Chain = <<Call("filter", <<Fn("even")>>), Call("fold", <<Fn("add")>>)>>
    /\ input.s # <<>>
    /\ rt.visited = input.s
    /\ rt.reached = <<>>

\* C8: a fused chain whose last operation is reverse returns the elements the
\* earlier stages produce in reverse order; a fused chain whose first
\* operation is reverse visits the elements of the receiver from last to
\* first; {1,2,3,4,6,20}.filter(>3).reverse() = {20,6,4} and
\* ints{1,2,3,4,5}.drop(3).reverse() = {5,4}.
C8_ReverseInPipeline ==
    (Len(sites) = 1 /\ pc = "done" /\ Fused(1)) =>
        /\ LastCall.sel = "reverse" => val.s = Reverse(rt.reached)
        /\ Chain[1].sel = "reverse" =>
              rt.visited = [j \in 1..Len(rt.visited) |-> input.s[Len(input.s) + 1 - j]]
        /\ Chain = <<Call("reverse", <<>>), Call("morph", <<Fn("double")>>)>> =>
              val.s = [j \in 1..Len(input.s) |-> 2 * input.s[Len(input.s) + 1 - j]]
        /\ (Chain = <<Call("filter", <<Fn("gt3")>>), Call("reverse", <<>>)>>
              /\ input.s = <<1, 2, 3, 4, 6, 20>>) => val.s = <<20, 6, 4>>
        /\ (Chain = <<Call("drop", <<IntLit(3)>>), Call("reverse", <<>>)>>
              /\ input.s = <<1, 2, 3, 4, 5>>) => val.s = <<5, 4>>

\* {1,2,3,4,6,20}.filter(>3).reverse() has returned {20,6,4}
C8_FilterReverseExample ==
    /\ Len(sites) = 1
    /\ pc = "done"
    /\ Fused(1)
    /\ Chain = <<Call("filter", <<Fn("gt3")>>), Call("reverse", <<>>)>>
    /\ input.s = <<1, 2, 3, 4, 6, 20>>
    /\ rt.reached = <<4, 6, 20>>
    /\ val.s = <<20, 6, 4>>

\* the pair a map function makes of the pair <<k, v>>
PairOf(f, k, v) == Apply(f, <<k, v>>)

\* C9: on a map, fused filter(p).filter(q) returns exactly the pairs of the
\* receiver that satisfy both p and q, and fused morph(f).morph(g) returns the
\* pairs g(f(k, v)) of the receiver's pairs <<k, v>> (one pair for each key
\* they produce, all of them when the keys they produce are distinct);
\* {1:1, 2:2}.filter(even).filter(even) = {2:2} and
\* {1:1, 2:2}.morph(double).morph(double) = {4:4, 8:8}.
C9_MapChains ==
    (/\ Len(sites) = 1
     /\ pc = "done"
     /\ Fused(1)
     /\ Underlying(sites[1].recv).kind = "map"
     /\ Len(Chain) = 2) =>
        LET m == input.m
            p == Chain[1].args[1].f
            q == Chain[2].args[1].f
        IN  /\ (Chain[1].sel = "filter" /\ Chain[2].sel = "filter") =>
                  LET kept == {k \in DOMAIN m : Apply(p, <<k, m[k]>>)[1] /\ Apply(q, <<k, m[k]>>)[1]}
                  IN  val.m = [k \in kept |-> m[k]]
            /\ (Chain[1].sel = "morph" /\ Chain[2].sel = "morph") =>
                  LET once(k) == PairOf(p, k, m[k])
                      twice(k) == PairOf(q, once(k)[1], once(k)[2])
                      pairs == {twice(k) : k \in DOMAIN m}
                  IN  /\ DOMAIN val.m = {pr[1] : pr \in pairs}
                      /\ \A k \in DOMAIN val.m : <<k, val.m[k]>> \in pairs
                      /\ Cardinality(DOMAIN val.m) = Cardinality(DOMAIN m) =>
                            \A pr \in pairs : val.m[pr[1]] = pr[2]
            /\ (Chain[1] = Call("filter", <<Fn("meven")>>) /\ Chain[2] = Chain[1]
                  /\ m = (1 :> 1) @@ (2 :> 2)) => val.m = (2 :> 2)
            /\ (Chain[1] = Call("morph", <<Fn("mdouble")>>) /\ Chain[2] = Chain[1]
                  /\ m = (1 :> 1) @@ (2 :> 2)) => val.m = (4 :> 4) @@ (8 :> 8)

\* {1:1, 2:2}.morph(double).morph(double) has returned {4:4, 8:8}
C9_MorphMorphExample ==
    /\ Len(sites) = 1
    /\ pc = "done"
    /\ Fused(1)
    /\ Underlying(sites[1].recv).kind = "map"
    /\ Chain = <<Call("morph", <<Fn("mdouble")>>), Call("morph", <<Fn("mdouble")>>)>>
    /\ input.m = (1 :> 1) @@ (2 :> 2)
    /\ val.m = (4 :> 4) @@ (8 :> 8)

\* C10: xs.morph(fn).take(n), fused, on a receiver of more than n elements
\* calls fn exactly n times, on the first n elements, and returns their
\* images.
C10_MorphTakeCalls ==
    (/\ Len(sites) = 1
     /\ pc = "done"
     /\ Fused(1)
     /\ Len(Chain) = 2
     /\ Chain[1].sel = "morph"
     /\ Chain[2].sel = "take"
     /\ Len(input.s) > ArgValue(Chain[2].args[1])) =>
        LET fn == Chain[1].args[1].f
            n == ArgValue(Chain[2].args[1])
        IN  /\ Len(CallsTo(fn)) = n
            /\ val.s = [j \in 1..n |-> Apply(fn, <<input.s[j]>>)[1]]

\* what the first i stages of a chain of drop, take and filter calls let
\* through of the elements xs: drop(n) all but the first min(n, m) of the m
\* elements that reach it, take(n) the first min(n, m) of them
RECURSIVE Stages(_, _, _)
Stages(chain, i, xs) ==
    IF i = 0 THEN xs
    ELSE LET ys == Stages(chain, i - 1, xs)
             m == Len(ys)
             n == IF chain[i].sel = "filter" THEN 0 ELSE ArgValue(chain[i].args[1])
         IN  CASE chain[i].sel = "drop" -> Slice(ys, Min(n, m) + 1, m)
               [] chain[i].sel = "take" -> Slice(ys, 1, Min(n, m))
               [] OTHER -> SelectSeq(ys, LAMBDA x : Apply(chain[i].args[1].f, <<x>>)[1])

\* C11: a fused chain of drop, take (and filter) calls builds and never
\* panics, and returns what its stages let through one after the other:
\* drop(n), first or later in the chain, removes the first min(n, m) of the m
\* elements that reach it and take(n) passes the first min(n, m) of them, each
\* stage counting for itself; {1,2,3,4,5}.drop(1).take(12).drop(2).take(1) and
\* {1,2,3,4,5}.take(12).drop(2).take(2).drop(1) are {4}.
C11_DropTakeCount ==
    (/\ Len(sites) = 1
     /\ pc \notin {"walk", "fatal"}
     /\ Fused(1)
     /\ \A j \in 1..Len(Chain) : Chain[j].sel \in {"drop", "take", "filter"}) =>
        /\ pc \notin {"builderror", "panic"}
        /\ pc = "done" => val.s = Stages(Chain, Len(Chain), input.s)
        /\ (pc = "done" /\ Chain \in TakeDropExamples) => val.s = <<4>>

\* xs.drop(1).take(12).drop(2).take(1) has returned {4}
C11_DropTakeExample ==
    /\ Len(sites) = 1
    /\ pc = "done"
    /\ Fused(1)
    /\ Chain = <<Call("drop", <<IntLit(1)>>), Call("take", <<IntLit(12)>>),
                 Call("drop", <<IntLit(2)>>), Call("take", <<IntLit(1)>>)>>
    /\ input.s = <<1, 2, 3, 4, 5>>
    /\ val.s = <<4>>

\* the static type of the call that segment k of call site i replaces or
\* leaves as it was
NodeType(i, k) == ExprType(sites[i].recv, sites[i].chain, segs[i][k].hi)

\* C12: a call that was rewritten (to a pipeline, to a single method or to a
\* generated function) and whose static type is a named type is replaced by a
\* conversion of the rewritten call to that type; a call that was not
\* rewritten (a method the type declares itself, a max or min that is a
\* constant) is never put into a conversion.
C12_NamedResultConverted ==
    \A i \in 1..Len(sites) : \A k \in 1..Len(segs[i]) :
        /\ (segs[i][k].kind \in {"pipeline", "single", "func"} /\ NodeType(i, k).name # "") =>
              segs[i][k].conv = NodeType(i, k).name
        /\ segs[i][k].kind \in {"plain", "const"} => segs[i][k].conv = ""

\* a pipeline on the named type ints was put into a conversion to ints, and
\* the call of the type's own filter in its receiver was left as it was
C12_PipelineConverted ==
    \E k, h \in 1..Len(segs[1]) :
        /\ pc = "done"
        /\ sites[1].recv = Ints
        /\ segs[1][k].kind = "pipeline"
        /\ segs[1][k].conv = "ints"
        /\ segs[1][h].kind = "plain"
        /\ NodeType(1, h) = Ints
        /\ segs[1][h].conv = ""

\* the length of the longest prefix of xs all of whose elements satisfy pred
PrefixLen(pred, xs) ==
    CHOOSE p \in 0..Len(xs) :
        /\ \A j \in 1..p : Apply(pred, <<xs[j]>>)[1]
        /\ p < Len(xs) => ~Apply(pred, <<xs[p + 1]>>)[1]

\* C13: a takeWhile(pred) call that is not fused returns the longest prefix
\* of the receiver all of whose elements satisfy pred: the empty slice for an
\* empty receiver, and the whole receiver when every element satisfies pred.
C13_TakeWhilePrefix ==
    (/\ Len(sites) = 1
     /\ pc = "done"
     /\ Len(Chain) = 1
     /\ LastCall.sel = "takeWhile") =>
        val.s = SubSeq(input.s, 1, PrefixLen(LastCall.args[1].f, input.s))

\* C14: a dropWhile(pred) call that is not fused returns the receiver without
\* its longest prefix all of whose elements satisfy pred: the empty slice when
\* every element satisfies pred.
C14_DropWhileRest ==
    (/\ Len(sites) = 1
     /\ pc = "done"
     /\ Len(Chain) = 1
     /\ LastCall.sel = "dropWhile") =>
        val.s = SubSeq(input.s, PrefixLen(LastCall.args[1].f, input.s) + 1, Len(input.s))

\* ------------------------------------------- the fold of src/gen.go

\* the single-operation templates of src/gen.go; the loop of its seedless
\* fold ranges over all of xs, the first element included
gen_foldTempl(xs, fn, acc) == FoldLeft(fn, acc, xs.s)

gen_fold1Templ(xs, fn) ==
    IF Len(xs.s) = 0 THEN Panic ELSE FoldLeft(fn, xs.s[1], xs.s)

\* foldGen picks the template by the number of arguments of the call
gen_foldGen(args) == IF Len(args) = 1 THEN "fold1_slice" ELSE "fold_slice"

\* the fold calls of the tests, and receivers of up to MaxFoldLen elements
FoldCalls ==
    {Call("fold", <<Fn("add")>>), Call("fold", <<Fn("sub")>>),
     Call("fold", <<Fn("add"), IntLit(1)>>)}

FoldInputs ==
    {SliceVal(FALSE, s) : s \in SeqsUpTo(1..MaxElem, MaxFoldLen)} \cup
    {SliceVal(FALSE, <<1, 2, 3, 4>>)}

InitGenFold ==
    \E c \in FoldCalls : \E v \in FoldInputs : InitOf(<<Site(SliceOf("int"), <<c>>)>>, v)

\* The method foldGen generates for the call, called on the receiver.
GenFold ==
    /\ pc = "walk"
    /\ LET args == [i \in 1..Len(LastCall.args) |-> ArgValue(LastCall.args[i])]
           res == IF gen_foldGen(LastCall.args) = "fold1_slice"
                  THEN gen_fold1Templ(input, args[1])
                  ELSE gen_foldTempl(input, args[1], args[2])
       IN  IF res.panic
           THEN pc' = "panic" /\ UNCHANGED <<val, calls>>
           ELSE pc' = "done" /\ val' = res.val /\ calls' = res.log
    /\ UNCHANGED <<sites, input, site, upto, files, counts, segs, rt, registry>>

SpecGenFold == InitGenFold /\ [][GenFold]_vars

\* C15: the seedless fold of src/gen.go returns the left fold that starts
\* from the first element and applies fn once to each later element in
\* order, for every non-empty slice; {1,2,3,4}.fold(sub) = -8.
C15_GenFoldFromFirst ==
    (pc = "done" /\ Len(LastCall.args) = 1) =>
        LET fn == LastCall.args[1].f
        IN  /\ val = FoldLeft(fn, Head(input.s), Tail(input.s)).val
            /\ Len(calls) = Len(input.s) - 1
            /\ (fn = "sub" /\ input.s = <<1, 2, 3, 4>>) => val = -8

\* the map values of the arguments of the merge call of the only call site,
\* and the map each of them held before the call
MergeRefs == [i \in 1..Len(LastCall.args) |-> RefOf(input.h, LastCall.args[i])]
MergeArg(i) == IF MergeRefs[i] = 0 THEN <<>> ELSE input.h[MergeRefs[i]].m
MergeDone ==
    /\ Len(sites) = 1
    /\ pc = "done"
    /\ sites[1].recv = NoRecv
    /\ LastCall.sel = "merge"

\* the returned map holds every key of every argument, with the value of the
\* last argument that holds the key
MergeLastWins ==
    /\ ~val.isnil
    /\ DOMAIN val.m = UNION {DOMAIN MergeArg(i) : i \in 1..Len(MergeRefs)}
    /\ \A k \in DOMAIN val.m :
          LET last == CHOOSE i \in 1..Len(MergeRefs) :
                          /\ k \in DOMAIN MergeArg(i)
                          /\ \A j \in (i + 1)..Len(MergeRefs) : k \notin DOMAIN MergeArg(j)
          IN  val.m[k] = MergeArg(last)[k]

\* a nil recv: the returned map is a new one and every map of the program is
\* as it was
MergeNilRecv ==
    /\ val.ref \notin 0..Len(input.h)
    /\ \A n \in 1..Len(input.h) : val.h[n] = input.h[n]

AtCall == pc = "walk" /\ site <= Len(sites)

\* what buildPipeline returns there
Built == buildPipeline(sites[site].recv, sites[site].chain, upto)

\* C17: a pipeline that buildPipeline returns holds at least two calls, each
\* with the transformation of its method, in execution order: a contiguous
\* run of the chain that ends at the outermost call; it returns nil
\* otherwise, so every generated pipeline method has two operations or more.
C17_PipelineAtLeastTwo ==
    /\ AtCall =>
          LET s == sites[site]
              n == Len(Built.fns)
          IN  IF Built.ok
              THEN /\ n >= 2
                   /\ Len(Built.ts) = n
                   /\ Built.fns = [j \in 1..n |-> upto - n + j]
                   /\ \A j \in 1..n :
                         Built.names[j] =
                            GenMethodName(s.chain[Built.fns[j]].sel,
                                          ExprType(s.recv, s.chain, Built.fns[j] - 1),
                                          Len(s.chain[Built.fns[j]].args))
              ELSE Built = NoPipeline
    /\ \A f \in Range(files) : f.method = "pipeline" => Len(f.names) >= 2
    /\ \A i \in 1..Len(sites) : \A k \in 1..Len(segs[i]) :
          /\ segs[i][k].kind = "pipeline" =>
                segs[i][k].hi - segs[i][k].lo + 1
                    = Len(FileNamed(files, segs[i][k].name).names)
          /\ segs[i][k].kind # "pipeline" => segs[i][k].hi = segs[i][k].lo

\* a pipeline of the last two calls of a chain of three was generated, and
\* buildPipeline returns nil for the one call that is left
C17_PipelineOfTail ==
    /\ AtCall
    /\ upto = 1
    /\ Built = NoPipeline
    /\ Len(sites[site].chain) = 3
    /\ Len(segs[site]) = 1
    /\ segs[site][1].kind = "pipeline"
    /\ segs[site][1].lo = 2
    /\ segs[site][1].hi = 3
    /\ Len(FileNamed(files, segs[site][1].name).names) = 2

\* the reverse calls before call upto of the chain (not the outermost call
\* of the chain buildPipeline is given), and the first of them that the
\* backward walk can meet
InnerReverses == {i \in 1..(upto - 1) : sites[site].chain[i].sel = "reverse"}
FirstMetReverse == CHOOSE i \in InnerReverses : \A j \in InnerReverses : j <= i

\* the walk is at a call that is not a reverse, with a reverse before it, and
\* buildPipeline returns a pipeline: no reverse is placed when the backward
\* walk comes to that reverse
ReverseNotPlaced ==
    /\ AtCall
    /\ sites[site].chain[upto].sel # "reverse"
    /\ InnerReverses # {}
    /\ Built.ok

\* C18 as stated: buildPipeline stops at a reverse that is not the outermost
\* call when no reverse has been placed, and the chain it returns does not
\* include that reverse.
C18_ReverseLeftOut ==
    ReverseNotPlaced => Built.fns[1] > FirstMetReverse

\* C18: buildPipeline stops at a reverse that is not the outermost call when
\* no reverse has been placed, and the chain it returns starts with that
\* reverse: no call before the reverse is in the chain, and when every call
\* after the reverse is, so is the reverse.
C18_ReverseKeptFirst ==
    ReverseNotPlaced =>
        /\ Built.fns[1] >= FirstMetReverse
        /\ Built.fns[1] <= FirstMetReverse + 1 => Built.fns[1] = FirstMetReverse
        /\ \A j \in 2..Len(Built.fns) : Built.names[j] # "reverse_slice"

\* takeWhile(even).reverse().morph(double): the pipeline generated for the
\* chain is reverse().morph(double) and takeWhile(even) is left to the walk
C18_ReverseStartsPipeline ==
    /\ AtCall
    /\ upto = 1
    /\ sites[site].chain = <<Call("takeWhile", <<Fn("even")>>), Call("reverse", <<>>),
                             Call("morph", <<Fn("double")>>)>>
    /\ Len(segs[site]) = 1
    /\ segs[site][1].lo = 2
    /\ FileNamed(files, segs[site][1].name).names = <<"reverse_slice", "morph_slice">>

\* the five fragments of a transformation
Fragments(t) == <<t.outline, t.setup, t.loop, t.op, t.cons>>

\* the arguments a statement sequence uses
ArgsUsed(stmts) == {stmts[j].a : j \in 1..Len(stmts)} \ {NoA}

\* the #argJ of the template raw are replaced in its specified copy t by the
\* formals numbered from before, the formals of g that receive the
\* arguments of the call and have the parameter types of t
StageArgs(call, raw, t, g, before) ==
    /\ Len(raw.params) = Len(call.args)
    /\ \A f \in 1..5 : \A j \in 1..Len(Fragments(raw)[f]) :
          LET a == Fragments(raw)[f][j].a
              b == Fragments(t)[f][j].a
          IN  IF a.t = "#arg"
              THEN /\ b = PlyArg(before + a.n - 1)
                   /\ g.args[before + a.n] = call.args[a.n]
                   /\ g.params[before + a.n] = t.params[a.n]
              ELSE b = a

\* the pipeline p of the calls p.fns of chain c and what gen makes of it
PipelineArgs(c, p, g) ==
    /\ g.args = ArgsOf(c, p.fns[1], p.fns[Len(p.fns)])
    /\ Len(g.params) = Len(g.args)
    /\ \A i \in 1..Len(p.ts) :
          StageArgs(c[p.fns[i]], transformations(p.names[i]), p.ts[i], g,
                    Len(ArgsOf(c, p.fns[1], p.fns[i] - 1)))

BuiltArgs(c, p) == p.ok => PipelineArgs(c, p, gen(p, c, counts.pipe))

\* the rewritten call and the declaration of a pipeline
RewrittenArgs(c, seg, d) ==
    /\ seg.args = ArgsOf(c, seg.lo, seg.hi)
    /\ Len(d.params) = Len(seg.args)
    /\ \A a \in ArgsUsed(d.body) :
          /\ a.t # "#arg"
          /\ a.t = "__plyarg_" => a.n \in 0..(Len(d.params) - 1)

\* C19: the rewritten call of a fused pipeline passes the arguments of all
\* its calls in chain order, the generated method has one formal
\* __plyarg_0 .. __plyarg_(n-1) for each of them, and every #argJ of the
\* template at chain position p is replaced by the formal numbered (number of
\* arguments of the calls before p) + J - 1: the formal that receives the
\* J-th argument of that call and has the J-th parameter type of that
\* template.
C19_ArgsConcatenated ==
    /\ AtCall => BuiltArgs(sites[site].chain, Built)
    /\ \A i \in 1..Len(sites) : \A k \in 1..Len(segs[i]) :
          segs[i][k].kind = "pipeline" =>
              RewrittenArgs(sites[i].chain, segs[i][k], FileNamed(files, segs[i][k].name))

\* filter(even).morph(double) was rewritten and has run: the call passes the
\* two arguments, the filter statement uses __plyarg_0 and the morph
\* statement __plyarg_1
C19_MorphUsesSecondFormal ==
    /\ Len(sites) = 1
    /\ pc = "done"
    /\ Fused(1)
    /\ segs[1][1].args = <<Fn("even"), Fn("double")>>
    /\ Len(PipelineOf(1).params) = 2
    /\ \E j \in 1..Len(PipelineOf(1).body) :
          PipelineOf(1).body[j].op = "filter" /\ PipelineOf(1).body[j].a = PlyArg(0)
    /\ \E j \in 1..Len(PipelineOf(1).body) :
          PipelineOf(1).body[j].op = "morph" /\ PipelineOf(1).body[j].a = PlyArg(1)

\* C20: the body gen assembles for a pipeline that buildPipeline returns
\* holds no #next, whatever the last operation of the chain is.
C20_NoNextLeft ==
    (AtCall /\ Built.ok) =>
        LET body == gen(Built, sites[site].chain, counts.pipe).body
        IN  \A j \in 1..Len(body) : body[j] # NEXT

\* C21: a fused chain that contains takeWhile(p) builds; the test of the
\* takeWhile stage calls the formal that receives the argument of the
\* takeWhile call; and the loop passes on the elements that reach the stage
\* before the first one for which p is false, and stops there:
\* takeWhile(p).morph(f) returns f of each element of the longest prefix of
\* the receiver that satisfies p.
C21_TakeWhileFused ==
    (/\ Len(sites) = 1
     /\ pc \notin {"walk", "fatal"}
     /\ Fused(1)
     /\ \E i \in 1..Len(Chain) : Chain[i].sel = "takeWhile") =>
        /\ pc # "builderror"
        /\ \A j \in 1..Len(PipelineOf(1).body) :
              PipelineOf(1).body[j].op = "takeWhile" =>
                  \E i \in 1..Len(Chain) :
                      /\ Chain[i].sel = "takeWhile"
                      /\ PipelineOf(1).body[j].a = PlyArg(Len(ArgsOf(Chain, 1, i - 1)))
        /\ (pc = "done" /\ Chain = <<Call("takeWhile", <<Fn("even")>>),
                                     Call("morph", <<Fn("double")>>)>>) =>
              val.s = [j \in 1..PrefixLen("even", input.s) |-> 2 * input.s[j]]

\* C22: in a fused chain that contains keys(), the stages after keys and the
\* final cons work on the keys of the map: m.filter(p).keys() returns the
\* keys of the entries of m that satisfy p, each once, and
\* m.keys().filter(q) returns the keys of m that satisfy q, each once.
C22_KeysFused ==
    (/\ Len(sites) = 1
     /\ pc = "done"
     /\ Fused(1)
     /\ Underlying(sites[1].recv).kind = "map"
     /\ Len(Chain) = 2) =>
        LET m == input.m
            keysIn(S) == /\ Range(val.s) = S
                         /\ Len(val.s) = Cardinality(S)
        IN  /\ (Chain[1].sel = "filter" /\ Chain[2].sel = "keys") =>
                  keysIn({k \in DOMAIN m : Apply(Chain[1].args[1].f, <<k, m[k]>>)[1]})
            /\ (Chain[1].sel = "keys" /\ Chain[2].sel = "filter") =>
                  keysIn({k \in DOMAIN m : Apply(Chain[2].args[1].f, <<k>>)[1]})

\* C23: a fused chain whose last operation is tee(f) is compiled and run; it
\* calls f once on each element the earlier stages produce, in order, and
\* returns the slice of those elements: filter(p).tee(f) returns the
\* elements of the receiver that satisfy p.
C23_TeeLast ==
    (/\ Len(sites) = 1
     /\ Len(Chain) = 2
     /\ LastCall.sel = "tee"
     /\ Chain[1].sel \in {"filter", "morph", "reverse", "drop", "take", "tee"}
     /\ pc # "walk") =>
        /\ pc \notin {"fatal", "builderror"}
        /\ Fused(1)
        /\ pc = "done" =>
              /\ CallsTo(LastCall.args[1].f)
                    = CallsOn(LastCall.args[1].f, rt.reached, Len(rt.reached))
              /\ val.s = rt.reached
              /\ Chain[1].sel = "filter" =>
                    val.s = SelectSeq(input.s, LAMBDA x : Apply(Chain[1].args[1].f, <<x>>)[1])

\* the statements of a body that declare a new key variable with #+k
KeyDecls(body) == {j \in 1..Len(body) : body[j].op = "morphmap"}

\* C24: the variable an op declares for #+k is named k followed by the new
\* value of the key counter kn (the loop's key is k1, the first #+k is k2,
\* and so on), so the #k of every later statement, up to the next op that
\* declares a key, names the variable that op declared; in every pipeline,
\* those where en and kn differ included.
C24_FreshKeyNamedByKn ==
    \A d \in Range(files) : d.method = "pipeline" =>
        \A j \in KeyDecls(d.body) :
            /\ d.body[j].nk = VarName("k", 1 + Cardinality({h \in KeyDecls(d.body) : h <= j}))
            /\ \A h \in (j + 1)..Len(d.body) :
                  (d.body[h].k # NoV /\ \A i \in KeyDecls(d.body) : ~(j < i /\ i < h))
                      => d.body[h].k = d.body[j].nk

\* the sectors gen adds to the outline of the last transformation, in order
SectorsOf(p) ==
    [i \in 1..Len(p.ts) |-> p.ts[i].setup] \o <<p.ts[1].loop>> \o
    [i \in 1..Len(p.ts) |-> p.ts[i].op] \o <<p.ts[Len(p.ts)].cons>>

\* en and kn do not decrease in any of the sectors that gen adds to q, the
\* pipeline's counters and code so far
RECURSIVE SectorsGrow(_, _)
SectorsGrow(q, inners) ==
    \/ inners = <<>>
    \/ LET r == addSector(q, Head(inners))
       IN  r.en >= q.en /\ r.kn >= q.kn /\ SectorsGrow(r, Tail(inners))

\* en and kn never decrease while gen assembles p
CountersGrow(p) ==
    p.ok => SectorsGrow([code |-> p.ts[Len(p.ts)].outline, en |-> p.en, kn |-> p.kn],
                        SectorsOf(p))

\* the statements of a body that declare an element variable
ElemDecls(body) == {j \in 1..Len(body) : body[j].ne # NoV}

\* each element variable of the body is declared once and not read before,
\* and each statement reads the element variable declared last before it
ElemNames(body) ==
    /\ \A j \in ElemDecls(body) :
          /\ body[j].ne.t = "e"
          /\ \A h \in ElemDecls(body) : h # j => body[h].ne # body[j].ne
          /\ \A h \in 1..j : body[h].e # body[j].ne
    /\ \A j \in 1..Len(body) : body[j].e # NoV =>
          /\ \E h \in ElemDecls(body) : h < j
          /\ LET last == CHOOSE h \in ElemDecls(body) :
                            h < j /\ \A i \in ElemDecls(body) : i < j => i <= h
             IN  body[j].e = body[last].ne

\* C25: in every pipeline gen assembles, en and kn never decrease, each name
\* put in for #+e is declared once and is not used before its declaration,
\* and the #e of each stage is the name bound last before it: by the loop or
\* by the nearest earlier stage that declares a new element variable.
C25_ElementVariables ==
    /\ AtCall => CountersGrow(Built)
    /\ \A d \in Range(files) : d.method = "pipeline" => ElemNames(d.body)

\* morph(double).morph(double) has run: the loop binds e1, the first morph
\* reads e1 and declares e2, the second reads e2 and declares e3, and the
\* cons appends e3
C25_TwoMorphs ==
    /\ Len(sites) = 1
    /\ pc = "done"
    /\ Fused(1)
    /\ Chain = <<Call("morph", <<Fn("double")>>), Call("morph", <<Fn("double")>>)>>
    /\ PipelineOf(1).en = 3
    /\ \E j \in 1..Len(PipelineOf(1).body) :
          /\ PipelineOf(1).body[j].op = "morph"
          /\ PipelineOf(1).body[j].e = VarName("e", 2)
          /\ PipelineOf(1).body[j].ne = VarName("e", 3)
    /\ \E j \in 1..Len(PipelineOf(1).body) :
          /\ PipelineOf(1).body[j].op = "append"
          /\ PipelineOf(1).body[j].e = VarName("e", 3)

\* C26: in the body of every pipeline that is generated, each element and
\* key variable a statement reads is declared by an earlier statement of the
\* body: the loop of the first template or an op before it.
C26_VariablesDeclared ==
    \A d \in Range(files) : d.method = "pipeline" =>
        \A j \in 1..Len(d.body) :
            /\ d.body[j].e # NoV => \E h \in 1..(j - 1) : d.body[h].ne = d.body[j].e
            /\ d.body[j].k # NoV => \E h \in 1..(j - 1) : d.body[h].nk = d.body[j].k

\* two call sites with their own chains on a []int: morph is called with a
\* func(int) int and with a func(int) bool
RegistryCalls ==
    {Call("filter", <<Fn("even")>>), Call("morph", <<Fn("double")>>),
     Call("morph", <<Fn("even")>>), Call("reverse", <<>>)}

InitRegistry ==
    \E c1 \in Chains(SliceOf("int"), RegistryCalls, MaxChain) :
      \E c2 \in Chains(SliceOf("int"), RegistryCalls, MaxChain) :
        InitOf(<<Site(SliceOf("int"), c1), Site(SliceOf("int"), c2)>>, WalkInput)

SpecRegistry == InitRegistry /\ [][Next]_vars

\* the parameters of the pipeline method of the calls lo.. of the chain of
\* site s, specified from the table as it is at the start
OwnParams(s, lo, names) ==
    Flatten([j \in 1..Len(names) |->
                specify(transformations(names[j]), s.chain[lo + j - 1], 0,
                        ExprType(s.recv, s.chain, lo + j - 2)).params])

RECURSIVE Itoa(_)
Itoa(n) ==
    LET digit == <<"0", "1", "2", "3", "4", "5", "6", "7", "8", "9">>[(n % 10) + 1]
    IN  IF n < 10 THEN <<digit>> ELSE Append(Itoa(n \div 10), digit)

\* the characters of the three prefixes
PrefixChars(prefix) ==
    CASE prefix = "__plypipe_" -> <<"_", "_", "p", "l", "y", "p", "i", "p", "e", "_">>
      [] prefix = "__plyfn_" -> <<"_", "_", "p", "l", "y", "f", "n", "_">>
      [] prefix = "__plytype_" -> <<"_", "_", "p", "l", "y", "t", "y", "p", "e", "_">>

\* a name string without the "_" between the counter and the base name
NameString_NoSeparator(g) == PrefixChars(g.prefix) \o Itoa(g.n) \o g.base

\* the string a generator returns: prefix + Itoa(count) for safePipeName,
\* prefix + Itoa(count) + "_" + name for safeFnName and safeTypeName
NameString(g) ==
    PrefixChars(g.prefix) \o Itoa(g.n) \o
    (IF g.prefix = "__plypipe_" THEN <<>> ELSE <<"_">> \o g.base)

\* base names, as sequences of characters: one begins with a digit
BaseNames == {<<"x">>, <<"1", "x">>}

\* a compilation that has asked for no name yet; val holds the names that
\* are keys of s.pkg.Files
InitNames ==
    /\ sites = <<>>
    /\ input = WalkInput
    /\ pc = "walk"
    /\ site = 1
    /\ upto = 0
    /\ files = <<>>
    /\ counts = [pipe |-> 0, type |-> 0, fn |-> 0]
    /\ segs = <<>>
    /\ rt = Idle
    /\ val = {}
    /\ calls = <<>>
    /\ registry = TableParams

\* addDecl(name, code) on the set of file names: a name already present is
\* discarded
NameTaken(name) ==
    /\ pc' = IF name \in val THEN "discarded" ELSE pc
    /\ val' = val \cup {name}
    /\ UNCHANGED <<sites, input, site, upto, files, segs, rt, calls, registry>>

\* A generator hands out a name and addDecl is called with it.
PipeName ==
    /\ pc = "walk"
    /\ counts.pipe < MaxOtherNames
    /\ counts' = [counts EXCEPT !.pipe = @ + 1]
    /\ NameTaken(NameString(safePipeName(counts.pipe)))

FnName ==
    /\ pc = "walk"
    /\ counts.fn < MaxOtherNames
    /\ counts' = [counts EXCEPT !.fn = @ + 1]
    /\ NameTaken(NameString(safeFnName(counts.fn, <<"x">>)))

TypeName ==
    /\ pc = "walk"
    /\ counts.type < MaxNames
    /\ counts' = [counts EXCEPT !.type = @ + 1]
    /\ \E base \in BaseNames : NameTaken(NameString(safeTypeName(counts.type, base)))

NextNames == PipeName \/ FnName \/ TypeName

SpecNames == InitNames /\ [][NextNames]_vars

\* C28: in one compilation no two calls of safePipeName, safeFnName and
\* safeTypeName return the same name, whatever the base names: the names
\* handed out are as many as the calls made, and addDecl discards none.
C28_NamesUnique ==
    (sites = <<>>) =>
        /\ pc # "discarded"
        /\ Cardinality(val) = counts.pipe + counts.fn + counts.type

\* safeTypeName has returned __plytype_1_1x and __plytype_11_x, and the two
\* other generators a name each
C28_ElevenNames ==
    /\ sites = <<>>
    /\ counts.type = 11
    /\ counts.pipe = 1
    /\ counts.fn = 1
    /\ NameString(GenName("__plytype_", 1, <<"1", "x">>)) \in val
    /\ NameString(GenName("__plytype_", 11, <<"x">>)) \in val

\* C29: when the walk over the chains has finished, the parts the walk dealt
\* with cover each chain from its first call to its last, one after the
\* other, so no call is handled twice; each part has one generated
\* declaration, and no call of a ply method is left as it was: the only
\* calls left are calls of methods the receiver's type declares itself.
C29_EveryCallImplemented ==
    (pc \notin {"walk", "fatal"}) =>
        \A i \in 1..Len(sites) :
            LET sg == segs[i]
                c == sites[i].chain
            IN  /\ sg # <<>>
                /\ sg[1].lo = 1
                /\ sg[Len(sg)].hi = Len(c)
                /\ \A k \in 1..(Len(sg) - 1) : sg[k].hi + 1 = sg[k + 1].lo
                /\ \A k \in 1..Len(sg) :
                      IF sg[k].kind = "plain"
                      THEN c[sg[k].lo].sel
                              \in UserMethods(ExprType(sites[i].recv, c, sg[k].lo - 1))
                      ELSE Cardinality({f \in 1..Len(files) : files[f].name = sg[k].name}) = 1

\* ------------------------------------------------ contains on a map, type-checked

\* the key and element types of the maps of the checked programs
CheckTypes == {"int", "bool", "string", "struct{}"}

\* the arguments of the checked calls: an untyped constant, true or false,
\* and a variable of type int, bool or string
CheckArgs ==
    {IntLit(n) : n \in 0..MaxElem} \cup {BoolLit(b) : b \in BOOLEAN}
        \cup {Var(t, 0) : t \in {"int", "bool", "string"}}

\* a program with one call m.contains(x) that the type-checker has not seen
InitCheck ==
    \E k \in CheckTypes, e \in CheckTypes, x \in CheckArgs :
        /\ sites = <<[recv |-> MapOf(k, e), chain |-> <<Call("contains", <<x>>)>>]>>
        /\ input = WalkInput
        /\ pc = "check"
        /\ site = 1
        /\ upto = 1
        /\ files = <<>>
        /\ counts = [pipe |-> 0, type |-> 0, fn |-> 0]
        /\ segs = <<<<>>>>
        /\ rt = Idle
        /\ val = Invalid
        /\ calls = <<>>
        /\ registry = TableParams

\* the type-checker on the call of the site: val holds the type it gives the
\* call, and an invalid operand is a type error
CheckCall ==
    /\ pc = "check"
    /\ val' = CallType(sites[site].recv, sites[site].chain[1])
    /\ pc' = IF val'.kind = "invalid" THEN "typeerror" ELSE "checked"
    /\ UNCHANGED <<sites, input, site, upto, files, counts, segs, rt, calls, registry>>

SpecCheck == InitCheck /\ [][CheckCall]_vars

\* C30: on a receiver of type map[T]U the type-checker accepts m.contains(x)
\* exactly when x can be assigned to the key type T, and a call it accepts
\* has the type bool.
C30_ContainsTakesKey ==
    (pc \in {"checked", "typeerror"}) =>
        LET x == sites[1].chain[1].args[1]
        IN  /\ (pc = "checked") <=> (x.ty = sites[1].recv.key)
            /\ (pc = "checked") => (val = Basic("bool"))

====
